---- MODULE Spec2Model ----
(***************************************************************************)
(* Task orchestration of the watermarker service                           *)
(* (src/src/watermarker/tasks/watermark.py, src/src/watermarker/api.py):   *)
(* the in-memory task store, the single-file retry routine, the batch      *)
(* routine with its progress computation, lifecycle hooks and the periodic *)
(* cleanup of old tasks.                                                   *)
(***************************************************************************)
EXTENDS Integers, Sequences, FiniteSets, TLC

(***************************************************************************)
(* Bounds of the model.                                                    *)
(***************************************************************************)
MaxTasks == 1
MaxRetries == 3
MaxFiles == 1
MaxBatch == 3
MaxTicks == 1
MaxTotal == 50
MaxStore == 2

(***************************************************************************)
(* Program constants.                                                      *)
(***************************************************************************)
DefaultMaxRetries == 3
DefaultRetryDelay == 5
CleanupHours == 24

TickHours == {25}
RetryDelays == {1, DefaultRetryDelay}
EngineErrors == {"E1", "E2"}

(***************************************************************************)
(* TaskStatus and the unset values of the Optional fields of Task.         *)
(***************************************************************************)
PENDING == "pending"
PROCESSING == "processing"
COMPLETED == "completed"
FAILED == "failed"
RETRYING == "retrying"
TaskStatus == {PENDING, PROCESSING, COMPLETED, FAILED, RETRYING}

NoneTime == 0 - 1
NoneError == "<None>"
NoneResult == [none |-> TRUE]
EmptyDict == [k \in {} |-> k]
Unbound == 0 - 1

(***************************************************************************)
(* Python float arithmetic (IEEE 754 binary64, round half to even), as     *)
(* used by  int((idx / len(file_paths)) * 100).  A float is a record       *)
(* [mant, exp] of value mant * 2^exp; mant is the 53-bit significand       *)
(* written as five digits <<d0, d1, d2, d3, d4>>: d0 is the leading bit    *)
(* and d1..d4 are 13 bits each, so that every intermediate value stays     *)
(* within 32 bits.                                                         *)
(***************************************************************************)
RECURSIVE Pow2(_)
Pow2(n) == IF n = 0 THEN 1 ELSE 2 * Pow2(n - 1)

Limb == Pow2(13)
FirstExp == 0 - 52

\* the s with b <= a * 2^s < 2 * b
RECURSIVE NormShift(_, _, _)
NormShift(a, b, s) == IF a >= b THEN s ELSE NormShift(2 * a, b, s + 1)

\* the number of bits of t after the first
RECURSIVE ExtraBits(_)
ExtraBits(t) == IF t <= 1 THEN 0 ELSE 1 + ExtraBits(t \div 2)

\* round half to even: the significand m as it is or plus one, given the
\* discarded part as (guard bit, sticky)
RoundEven(m, exp, guard, sticky) ==
    LET up == guard = 1 /\ (sticky \/ m[5] % 2 = 1)
        c4 == m[5] + 1
        c3 == m[4] + c4 \div Limb
        c2 == m[3] + c3 \div Limb
        c1 == m[2] + c2 \div Limb
        c0 == m[1] + c1 \div Limb
    IN IF ~up THEN [mant |-> m, exp |-> exp]
       ELSE IF c0 = 1
       THEN [mant |-> <<1, c1 % Limb, c2 % Limb, c3 % Limb, c4 % Limb>>, exp |-> exp]
       ELSE [mant |-> <<1, 0, 0, 0, 0>>, exp |-> exp + 1]

\* a / b for integers 0 < a <= b (Python true division, correctly rounded)
TrueDiv(a, b) ==
    LET s == NormShift(a, b, 0)
        r0 == a * Pow2(s) - b
        d1 == (r0 * Limb) \div b
        r1 == (r0 * Limb) % b
        d2 == (r1 * Limb) \div b
        r2 == (r1 * Limb) % b
        d3 == (r2 * Limb) \div b
        r3 == (r2 * Limb) % b
        d4 == (r3 * Limb) \div b
        r4 == (r3 * Limb) % b
    IN RoundEven(<<1, d1, d2, d3, d4>>, FirstExp - s,
                 IF 2 * r4 >= b THEN 1 ELSE 0, 2 * r4 # b)

\* f * c for a float f and an integer 1 <= c < 2^12 (exact as a float)
FloatMul(f, c) ==
    LET m == f.mant
        p4 == m[5] * c
        p3 == m[4] * c + p4 \div Limb
        p2 == m[3] * c + p3 \div Limb
        p1 == m[2] * c + p2 \div Limb
        p0 == m[1] * c + p1 \div Limb
        x == ExtraBits(p0)
        w == Pow2(x)
        q1 == p1 % Limb
        q2 == p2 % Limb
        q3 == p3 % Limb
        q4 == p4 % Limb
        k1 == ((p0 % w) * Limb + q1) \div w
        k2 == ((q1 % w) * Limb + q2) \div w
        k3 == ((q2 % w) * Limb + q3) \div w
        k4 == ((q3 % w) * Limb + q4) \div w
        dropped == q4 % w
        guard == IF x >= 1 /\ 2 * dropped >= w THEN 1 ELSE 0
        sticky == x >= 1 /\ (2 * dropped) % w # 0
    IN RoundEven(<<1, k1, k2, k3, k4>>, f.exp + x, guard, sticky)

\* int(f) for a float 0 < f < 2^14: truncation
FloatToInt(f) ==
    LET n == f.exp - FirstExp + 1
    IN IF n <= 0 THEN 0
       ELSE (f.mant[1] * Limb + f.mant[2]) \div Pow2(14 - n)

\* int((idx / total) * 100)
FloatPercent(idx, total) == FloatToInt(FloatMul(TrueDiv(idx, total), 100))

\* FloatPercent tabulated over the list lengths of the model
PercentTable ==
    [total \in 1..(MaxTotal + MaxBatch + MaxFiles) |->
        [idx \in 1..total |-> FloatPercent(idx, total)]]

\* the remaining share instead of the attempted share
BatchProgress_Remaining(idx, total) == 100 - PercentTable[total][idx]
\* progress = int((idx / len(file_paths)) * 100)
BatchProgress(idx, total) == PercentTable[total][idx]

(***************************************************************************)
(* State.                                                                  *)
(*   tasks_db    _tasks_db: task id -> Task                                *)
(*   issued      number of identifiers uuid4 has handed out                *)
(*   jobs        the background coroutine of each task: its position and   *)
(*               its local variables                                       *)
(*   status_log  per task, the statuses the store has held, in order       *)
(*   sleep_log   per task, the delays passed to asyncio.sleep, in order    *)
(*   hook_log    per task, the trigger_hook calls, in order                *)
(*   engine_log  per task, the apply_watermark calls with what they        *)
(*               returned or raised, in order                              *)
(*   now, ticks  datetime.utcnow() in hours, and the clock steps taken     *)
(*   p_total, p_idx, p_out  the progress computation taken alone           *)
(*   environ     os.environ restricted to the *_HOOK keys                  *)
(*   reaper      the cleanup thread: its position, the state of its        *)
(*               iteration over the store, and its log of errors           *)
(*   API_KEY     api.API_KEY, read from the environment at import          *)
(*   exchange    the last request handled (HTTP, or a run of the command   *)
(*               line) and its response                                    *)
(*   delivered   the hook requests (urlopen) that have returned            *)
(*   styles      the configuration dicts in memory (the module-level       *)
(*               `config` and the copies the handlers make) and the engine *)
(*               calls made with them                                      *)
(***************************************************************************)
VARIABLES tasks_db, issued, jobs, status_log, sleep_log, hook_log, engine_log, now, ticks,
          p_total, p_idx, p_out, environ, reaper, API_KEY, exchange, delivered, styles

store_vars == <<tasks_db, issued, jobs, status_log, sleep_log, hook_log, engine_log>>
clock_vars == <<now, ticks>>
progress_vars == <<p_total, p_idx, p_out>>
thread_vars == <<environ, reaper>>
api_vars == <<API_KEY, exchange, delivered, styles>>
vars == <<tasks_db, issued, jobs, status_log, sleep_log, hook_log, engine_log, now, ticks,
          p_total, p_idx, p_out, environ, reaper, API_KEY, exchange, delivered, styles>>

TaskIds == 1..MaxTasks
Terminal == {COMPLETED, FAILED}

(***************************************************************************)
(* Task and TaskManager.                                                   *)
(***************************************************************************)
Task(task_id, max_retries, retry_delay, t) ==
    [task_id |-> task_id, status |-> PENDING, created_at |-> t,
     started_at |-> NoneTime, completed_at |-> NoneTime, result |-> NoneResult,
     error |-> NoneError, retry_count |-> 0, max_retries |-> max_retries,
     retry_delay |-> retry_delay]

\* datetime.isoformat(): an injective rendering of a timestamp
isoformat(t) == <<"iso", t>>
NoneIso == <<"None">>

to_dict(task) ==
    [task_id |-> task.task_id,
     status |-> task.status,
     created_at |-> isoformat(task.created_at),
     started_at |-> IF task.started_at # NoneTime THEN isoformat(task.started_at) ELSE NoneIso,
     completed_at |-> IF task.completed_at # NoneTime THEN isoformat(task.completed_at) ELSE NoneIso,
     result |-> IF task.result = NoneResult THEN EmptyDict ELSE task.result,
     error |-> task.error,
     retry_count |-> task.retry_count,
     max_retries |-> task.max_retries]

\* the store is rebound to a dict that holds the new task only
create_task_Rebind(db, task_id, max_retries, retry_delay, t) ==
    [i \in {task_id} |-> Task(task_id, max_retries, retry_delay, t)]

create_task(db, task_id, max_retries, retry_delay, t) ==
    [i \in DOMAIN db \cup {task_id} |->
        IF i = task_id THEN Task(task_id, max_retries, retry_delay, t) ELSE db[i]]

get_task(db, task_id) == IF task_id \in DOMAIN db THEN {db[task_id]} ELSE {}

\* the keyword arguments are not applied
updated_task_NoKwargs(task, status, kwargs, t) ==
    IF status = PROCESSING /\ task.started_at = NoneTime
    THEN [task EXCEPT !.status = status, !.started_at = t]
    ELSE IF status \in {COMPLETED, FAILED}
    THEN [task EXCEPT !.status = status, !.completed_at = t]
    ELSE [task EXCEPT !.status = status]

\* started_at is stamped by every PROCESSING update
updated_task_Restamp(task, status, kwargs, t) ==
    LET stamped ==
            IF status = PROCESSING
            THEN [task EXCEPT !.status = status, !.started_at = t]
            ELSE IF status \in {COMPLETED, FAILED}
            THEN [task EXCEPT !.status = status, !.completed_at = t]
            ELSE [task EXCEPT !.status = status]
    IN [f \in DOMAIN stamped |-> IF f \in DOMAIN kwargs THEN kwargs[f] ELSE stamped[f]]

\* completed_at is stamped by the RETRYING update as well
updated_task_StampOnRetrying(task, status, kwargs, t) ==
    LET stamped ==
            IF status = PROCESSING /\ task.started_at = NoneTime
            THEN [task EXCEPT !.status = status, !.started_at = t]
            ELSE IF status \in {COMPLETED, FAILED, RETRYING}
            THEN [task EXCEPT !.status = status, !.completed_at = t]
            ELSE [task EXCEPT !.status = status]
    IN [f \in DOMAIN stamped |-> IF f \in DOMAIN kwargs THEN kwargs[f] ELSE stamped[f]]

\* the task as update_task_status leaves it
updated_task(task, status, kwargs, t) ==
    LET stamped ==
            IF status = PROCESSING /\ task.started_at = NoneTime
            THEN [task EXCEPT !.status = status, !.started_at = t]
            ELSE IF status \in {COMPLETED, FAILED}
            THEN [task EXCEPT !.status = status, !.completed_at = t]
            ELSE [task EXCEPT !.status = status]
    IN [f \in DOMAIN stamped |-> IF f \in DOMAIN kwargs THEN kwargs[f] ELSE stamped[f]]

update_task_status(db, task_id, status, kwargs, t) ==
    IF task_id \notin DOMAIN db THEN db
    ELSE [db EXCEPT ![task_id] = updated_task(db[task_id], status, kwargs, t)]

\* a FAILED transition is reported as "complete"
hook_event_AlwaysComplete(previous_status, status) ==
    IF status = PROCESSING /\ previous_status # PROCESSING THEN "start"
    ELSE IF status \in {COMPLETED, FAILED} THEN "complete"
    ELSE ""
\* the event update_task_status hands to trigger_hook ("" for none)
hook_event(previous_status, status) ==
    IF status = PROCESSING /\ previous_status # PROCESSING THEN "start"
    ELSE IF status = COMPLETED THEN "complete"
    ELSE IF status = FAILED THEN "error"
    ELSE ""

\* the environment variable trigger_hook reads: f"{event.upper()}_HOOK"
HookEvents == {"start", "complete", "error"}
EnvKey(event) ==
    CASE event = "start" -> "START_HOOK"
      [] event = "complete" -> "COMPLETE_HOOK"
      [] event = "error" -> "ERROR_HOOK"
HookKeys == {EnvKey(event) : event \in HookEvents}
\* os.getenv(env_key): unset, a URL, or the path of a program
NoHook == ""
HookTargets == {NoHook, "http://hooks/notify", "/usr/local/bin/notify"}
NoEnviron == [k \in HookKeys |-> NoHook]
\* what becomes of the request or of the launch of the program
Deliveries(hook) == IF hook = NoHook THEN {"unset"} ELSE {"delivered", "failed"}

\* a delivery that fails raises into update_task_status
trigger_hook_Propagates(log, event, data, hook, delivery) ==
    IF event = "" THEN log
    ELSE Append(log, [event |-> event, data |-> data, hook |-> hook, delivery |-> delivery,
                      raised |-> (delivery = "failed")])

\* trigger_hook(event, data): the call is recorded with what became of it;
\* it returns at once when the hook is unset, and the except of its try
\* block logs a failed delivery, so the call never raises
trigger_hook(log, event, data, hook, delivery) ==
    IF event = "" THEN log
    ELSE Append(log, [event |-> event, data |-> data, hook |-> hook, delivery |-> delivery,
                      raised |-> FALSE])

\* cutoff = datetime.utcnow() - timedelta(hours=hours)
Cutoff(t, hours) == t - hours
\* a task completed exactly at the cutoff is deleted too
Expired_Inclusive(task, cutoff) ==
    task.completed_at # NoneTime /\ task.completed_at <= cutoff
\* t.completed_at and t.completed_at < cutoff
Expired(task, cutoff) == task.completed_at # NoneTime /\ task.completed_at < cutoff
to_delete(db, hours, t) == {tid \in DOMAIN db : Expired(db[tid], Cutoff(t, hours))}

\* the store as cleanup_old_tasks(hours) leaves it, and what it returns
cleanup_old_tasks(db, hours, t) == [tid \in DOMAIN db \ to_delete(db, hours, t) |-> db[tid]]
\* return len(to_delete)
cleanup_old_tasks_return(db, hours, t) == Cardinality(to_delete(db, hours, t))

\* one call of TaskManager.update_task_status by the coroutine of task_id
StoreUpdate(task_id, status, kwargs) ==
    /\ tasks_db' = update_task_status(tasks_db, task_id, status, kwargs, now)
    /\ IF task_id \in DOMAIN tasks_db
       THEN /\ status_log' = [status_log EXCEPT ![task_id] = Append(@, status)]
            /\ LET event == hook_event(tasks_db[task_id].status, status)
                    hook == IF event = "" THEN NoHook ELSE environ[EnvKey(event)]
               IN \E delivery \in Deliveries(hook) :
                     hook_log' = [hook_log EXCEPT ![task_id] =
                        trigger_hook(@, event,
                            to_dict(updated_task(tasks_db[task_id], status, kwargs, now)),
                            hook, delivery)]
       ELSE UNCHANGED <<status_log, hook_log>>

(***************************************************************************)
(* The watermark engine (apply_watermark) is external: a call returns the  *)
(* output path of its input or raises with a message.                      *)
(***************************************************************************)
apply_watermark(input_path) == <<"out", input_path>>
EngineOutcomes == {[ok |-> TRUE]} \cup {[ok |-> FALSE, err |-> e] : e \in EngineErrors}
OrchErrors == {"X1"}
EngineCall(input_path, outcome) == [input |-> input_path, outcome |-> outcome]

\* save_upload_file: a fresh file name per upload
UploadPath(task_id) == <<"upload", task_id>>
RECURSIVE PathList(_)
PathList(n) == IF n = 0 THEN <<>> ELSE Append(PathList(n - 1), <<"file", n>>)
BatchRequests == {PathList(n) : n \in 0..MaxFiles}

SingleJob(input_path) ==
    [kind |-> "single", pc |-> "queued", input_path |-> input_path, retry_count |-> 0,
     max_retries |-> 0, retry_delay |-> 0]
BatchJob(file_paths) ==
    [kind |-> "batch", pc |-> "queued", file_paths |-> file_paths, idx |-> 0,
     processed |-> <<>>, skipped |-> <<>>, progress |-> Unbound]

AddJob(task_id, job) ==
    jobs' = [i \in DOMAIN jobs \cup {task_id} |-> IF i = task_id THEN job ELSE jobs[i]]

(***************************************************************************)
(* Request handlers (api.py).                                              *)
(***************************************************************************)
\* config = load_config(): the values apply_watermark can override, as the
\* environment defaults set them
LoadedConfig ==
    [padding |-> 0, font_color |-> "FFC0CB", border_color |-> "FFFFFF",
     border_thickness |-> 2, font_file |-> "DejaVuSans-Bold.ttf"]
\* the reference of the module-level dict `config`
ConfigRef == 0
NoStyles == [heap |-> [r \in {ConfigRef} |-> LoadedConfig], calls |-> <<>>]

\* the value of an absent header or query parameter (auto_error=False)
NoneKey == "<None>"
\* API_KEY as the deployment sets it, and unset
ConfiguredKey == "test-key"
ApiKeys == {NoneKey, ConfiguredKey}
\* what a client may send as X-API-Key or as authkey
RequestKeys == {NoneKey, "", ConfiguredKey, "wrong-key"}
\* Python truth value of an optional string, and `a or b`
Truthy(v) == v \notin {NoneKey, ""}
Or(a, b) == IF Truthy(a) THEN a ELSE b

\* the dependency of the protected endpoints: the key it returns (code 200)
\* or the HTTPException it raises
get_api_key(api_key_header_value, api_key_query_value) ==
    IF ~Truthy(API_KEY)
    THEN [code |-> 500, detail |-> "API key not configured"]
    ELSE LET provided_key == Or(api_key_header_value, api_key_query_value)
         IN  IF provided_key # API_KEY
             THEN [code |-> 401, detail |-> "Invalid API Key"]
             ELSE [code |-> 200, api_key |-> provided_key]

valid_positions == {"top-left", "top-right", "bottom-left", "bottom-right", "center"}
Positions == {"center", "middle"}
\* uploads: an image, a file of another type, an image over max_upload_size
Uploads == {"photo.jpg", "notes.txt", "huge.jpg"}
\* save_upload_file: the path it returns (code 200) or the HTTPException
save_upload_file(upload_file, task_id) ==
    CASE upload_file = "notes.txt" -> [code |-> 400, detail |-> "Error saving file"]
      [] upload_file = "huge.jpg" -> [code |-> 413, detail |-> "File too large"]
      [] OTHER -> [code |-> 200, path |-> UploadPath(task_id)]

\* requests: a valid upload with every pair of keys, and every upload with
\* the configured key in the header; the same for batches
UploadRequests ==
    [endpoint : {"upload"}, header : RequestKeys, query : RequestKeys,
     position : {"center"}, file : {"photo.jpg"}]
    \cup [endpoint : {"upload"}, header : {ConfiguredKey}, query : {NoneKey},
          position : Positions, file : Uploads]
BatchHttpRequests ==
    [endpoint : {"batch"}, header : RequestKeys, query : RequestKeys,
     position : {"center"}, file_paths : {PathList(MaxFiles)}]
    \cup [endpoint : {"batch"}, header : {ConfiguredKey}, query : {NoneKey},
          position : Positions, file_paths : BatchRequests]
\* the handler declares no key; a client may send one all the same
StatusRequests(ids) ==
    [endpoint : {"status"}, task_id : ids,
     header : {NoneKey, ConfiguredKey, "wrong-key"}, query : {NoneKey}]
NoExchange == [request |-> [endpoint |-> ""], response |-> [code |-> 0]]

\* the body of a 202 response
Accepted(task_id) ==
    [code |-> 202,
     body |-> [task_id |-> task_id, status |-> "processing",
               status_url |-> <<"/api/v1/tasks/", task_id>>]]

upload_and_watermark ==
    /\ issued < MaxTasks
    /\ issued' = issued + 1
    /\ tasks_db' = create_task(tasks_db, issued + 1, DefaultMaxRetries, DefaultRetryDelay, now)
    /\ AddJob(issued + 1, SingleJob(UploadPath(issued + 1)))
    /\ status_log' = [status_log EXCEPT ![issued + 1] = <<PENDING>>]
    /\ UNCHANGED <<sleep_log, hook_log, engine_log, clock_vars, progress_vars, thread_vars, api_vars>>

watermark_batch(file_paths) ==
    /\ issued < MaxTasks
    /\ issued' = issued + 1
    /\ tasks_db' = create_task(tasks_db, issued + 1, DefaultMaxRetries, DefaultRetryDelay, now)
    /\ AddJob(issued + 1, BatchJob(file_paths))
    /\ status_log' = [status_log EXCEPT ![issued + 1] = <<PENDING>>]
    /\ UNCHANGED <<sleep_log, hook_log, engine_log, clock_vars, progress_vars, thread_vars, api_vars>>

\* no query is answered while an engine call is running
get_task_status_Busy(task_id) ==
    IF \E t \in DOMAIN jobs : jobs[t].pc \in {"engine", "loop"}
    THEN [code |-> 503, detail |-> "busy"]
    ELSE IF get_task(tasks_db, task_id) = {}
    THEN [code |-> 404, detail |-> "Task not found"]
    ELSE [code |-> 200, body |-> to_dict(tasks_db[task_id])]

\* GET /api/v1/tasks/{task_id}: the response, a function of the store
get_task_status(task_id) ==
    IF get_task(tasks_db, task_id) = {}
    THEN [code |-> 404, detail |-> "Task not found"]
    ELSE [code |-> 200, body |-> to_dict(tasks_db[task_id])]

\* the routes of `app`: the path operations of api.py, and the mount of the
\* output folder
Routes ==
    {<<"GET", "/api/v1/tasks/{task_id}">>, <<"POST", "/api/v1/watermark/upload">>,
     <<"POST", "/api/v1/watermark/batch">>, <<"POST", "/video-sample">>,
     <<"GET", "/health">>, <<"GET", "/auth-check">>, <<"MOUNT", "/output">>}
\* a file of the output folder and a file next to that folder
FilePaths == {"/tmp/out/hello.txt", "/tmp/secret.txt"}
InsideOutput(path) == path = "/tmp/out/hello.txt"
FileBytes(path) == IF InsideOutput(path) THEN "hello" ELSE "nope"
FileRequests ==
    [endpoint : {"files"}, header : {NoneKey, ConfiguredKey}, query : {NoneKey},
     path : FilePaths]
\* the answer of the router to a request that matches no route
NotFound == [code |-> 404, detail |-> "Not Found"]

\* the request is answered with `response` and nothing else happens
Reply(request, response) ==
    /\ exchange' = [request |-> request, response |-> response]
    /\ UNCHANGED <<store_vars, clock_vars, progress_vars, thread_vars, API_KEY, delivered, styles>>

\* the handler has created the task and scheduled its routine
ReplyAccepted(request, job) ==
    /\ issued < MaxTasks
    /\ issued' = issued + 1
    /\ tasks_db' = create_task(tasks_db, issued + 1, DefaultMaxRetries, DefaultRetryDelay, now)
    /\ AddJob(issued + 1, job)
    /\ status_log' = [status_log EXCEPT ![issued + 1] = <<PENDING>>]
    /\ exchange' = [request |-> request, response |-> Accepted(issued + 1)]
    /\ UNCHANGED <<sleep_log, hook_log, engine_log, clock_vars, progress_vars, thread_vars,
                   API_KEY, delivered, styles>>

\* the handler creates the task and schedules its routine before it checks
\* the position and saves the upload
upload_and_watermark_request_CreateFirst(request) ==
    LET auth == get_api_key(request.header, request.query)
        saved == save_upload_file(request.file, issued + 1)
        response ==
            IF request.position \notin valid_positions
            THEN [code |-> 400, detail |-> "Invalid position"]
            ELSE IF saved.code # 200 THEN saved
            ELSE Accepted(issued + 1)
    IN  IF auth.code # 200 THEN Reply(request, auth)
        ELSE /\ issued < MaxTasks
             /\ issued' = issued + 1
             /\ tasks_db' = create_task(tasks_db, issued + 1, DefaultMaxRetries,
                                        DefaultRetryDelay, now)
             /\ AddJob(issued + 1, SingleJob(UploadPath(issued + 1)))
             /\ status_log' = [status_log EXCEPT ![issued + 1] = <<PENDING>>]
             /\ exchange' = [request |-> request, response |-> response]
             /\ UNCHANGED <<sleep_log, hook_log, engine_log, clock_vars, progress_vars,
                            thread_vars, API_KEY, delivered, styles>>

\* POST /api/v1/watermark/upload as a client sees it: the dependency
\* get_api_key, the check of the position, save_upload_file, then the task
upload_and_watermark_request(request) ==
    LET auth == get_api_key(request.header, request.query)
        saved == save_upload_file(request.file, issued + 1)
    IN  IF auth.code # 200 THEN Reply(request, auth)
        ELSE IF request.position \notin valid_positions
        THEN Reply(request, [code |-> 400, detail |-> "Invalid position"])
        ELSE IF saved.code # 200 THEN Reply(request, saved)
        ELSE ReplyAccepted(request, SingleJob(saved.path))

\* POST /api/v1/watermark/batch as a client sees it
watermark_batch_request(request) ==
    LET auth == get_api_key(request.header, request.query)
    IN  IF auth.code # 200 THEN Reply(request, auth)
        ELSE IF request.position \notin valid_positions
        THEN Reply(request, [code |-> 400, detail |-> "Invalid position"])
        ELSE ReplyAccepted(request, BatchJob(request.file_paths))

\* the handler inserts an empty entry for an identifier it does not find
get_task_status_request_Inserts(request) ==
    /\ exchange' = [request |-> request, response |-> get_task_status(request.task_id)]
    /\ tasks_db' =
          IF request.task_id \in DOMAIN tasks_db THEN tasks_db
          ELSE create_task(tasks_db, request.task_id, DefaultMaxRetries, DefaultRetryDelay, now)
    /\ UNCHANGED <<issued, jobs, status_log, sleep_log, hook_log, engine_log, clock_vars,
                   progress_vars, thread_vars, API_KEY, delivered, styles>>

\* GET /api/v1/tasks/{task_id} as a client sees it: no dependency on
\* get_api_key
get_task_status_request(request) == Reply(request, get_task_status(request.task_id))

\* GET /api/v1/files/{path}: `app` has no such route, the router answers
files_request(request) ==
    /\ <<"GET", "/api/v1/files/{path}">> \notin Routes
    /\ Reply(request, NotFound)

(***************************************************************************)
(* process_watermark_task.                                                 *)
(***************************************************************************)
\* linear instead of exponential backoff
RetryDelay_Linear(retry_delay, retry_count) == retry_delay * (retry_count + 1)
\* delay = task.retry_delay * (2 ** retry_count)
RetryDelay(retry_delay, retry_count) == retry_delay * Pow2(retry_count)
\* one retry too many, one retry too few
Retryable_Inclusive(retry_count, max_retries) == retry_count <= max_retries
Retryable_Short(retry_count, max_retries) == retry_count + 1 < max_retries
\* if retry_count < task.max_retries
Retryable(retry_count, max_retries) == retry_count < max_retries

\* the routine starts the engine without marking the task PROCESSING
EnterSingle_NoProcessing(t, retry_count) ==
    /\ jobs' = [jobs EXCEPT ![t].pc = "engine", ![t].retry_count = retry_count,
                            ![t].max_retries = tasks_db[t].max_retries,
                            ![t].retry_delay = tasks_db[t].retry_delay]
    /\ UNCHANGED <<tasks_db, status_log, hook_log>>

\* the routine does not look the task up before it starts
EnterSingle_NoLookup(t, retry_count) ==
    /\ StoreUpdate(t, PROCESSING, [result |-> [progress |-> 0]])
    /\ jobs' = [jobs EXCEPT ![t].pc = "engine", ![t].retry_count = retry_count,
                            ![t].max_retries = DefaultMaxRetries,
                            ![t].retry_delay = DefaultRetryDelay]

\* entry of process_watermark_task(task_id, ..., retry_count)
EnterSingle(t, retry_count) ==
    IF get_task(tasks_db, t) = {}
    THEN /\ jobs' = [jobs EXCEPT ![t].pc = "returned"]
         /\ UNCHANGED <<tasks_db, status_log, hook_log>>
    ELSE /\ StoreUpdate(t, PROCESSING, [result |-> [progress |-> 0]])
         /\ jobs' = [jobs EXCEPT ![t].pc = "engine", ![t].retry_count = retry_count,
                                 ![t].max_retries = tasks_db[t].max_retries,
                                 ![t].retry_delay = tasks_db[t].retry_delay]

process_watermark_task_start(t) ==
    /\ t \in DOMAIN jobs /\ jobs[t].kind = "single" /\ jobs[t].pc = "queued"
    /\ EnterSingle(t, 0)
    /\ UNCHANGED <<issued, sleep_log, engine_log, clock_vars, progress_vars, thread_vars, api_vars>>

\* the COMPLETED update resets the error of the task
OnEngineSuccess_ClearsError(t, job, output_path) ==
    /\ StoreUpdate(t, COMPLETED,
          [result |-> [output_path |-> output_path, progress |-> 100], error |-> NoneError])
    /\ jobs' = [jobs EXCEPT ![t].pc = "returned"]
    /\ UNCHANGED sleep_log

\* the COMPLETED update does not pass the result
OnEngineSuccess_NoResult(t, job, output_path) ==
    /\ StoreUpdate(t, COMPLETED, EmptyDict)
    /\ jobs' = [jobs EXCEPT ![t].pc = "returned"]
    /\ UNCHANGED sleep_log

\* the engine call has returned output_path: lines 148-154
OnEngineSuccess(t, job, output_path) ==
    /\ StoreUpdate(t, COMPLETED, [result |-> [output_path |-> output_path, progress |-> 100]])
    /\ jobs' = [jobs EXCEPT ![t].pc = "returned"]
    /\ UNCHANGED sleep_log

\* the routine sleeps and calls itself again even when the retries are used up
OnEngineFailure_RetryAfterFailed(t, job, err) ==
    /\ StoreUpdate(t, IF job.retry_count < job.max_retries THEN RETRYING ELSE FAILED,
          [error |-> err, retry_count |-> job.retry_count, result |-> [progress |-> 0]])
    /\ sleep_log' = [sleep_log EXCEPT ![t] =
                        Append(@, RetryDelay(job.retry_delay, job.retry_count))]
    /\ jobs' = [jobs EXCEPT ![t].pc = "sleep"]

\* the routine calls itself again without the backoff delay
OnEngineFailure_NoBackoff(t, job, err) ==
    IF Retryable(job.retry_count, job.max_retries)
    THEN /\ StoreUpdate(t, RETRYING,
               [error |-> err, retry_count |-> job.retry_count + 1,
                result |-> [progress |-> 0]])
         /\ jobs' = [jobs EXCEPT ![t].pc = "sleep"]
         /\ UNCHANGED sleep_log
    ELSE /\ StoreUpdate(t, FAILED,
               [error |-> err, retry_count |-> job.retry_count,
                result |-> [progress |-> 0]])
         /\ jobs' = [jobs EXCEPT ![t].pc = "returned"]
         /\ UNCHANGED sleep_log

\* the RETRYING update also stores the delay it computed as retry_delay
OnEngineFailure_StoresDelay(t, job, err) ==
    IF Retryable(job.retry_count, job.max_retries)
    THEN /\ StoreUpdate(t, RETRYING,
               [error |-> err, retry_count |-> job.retry_count + 1,
                result |-> [progress |-> 0],
                retry_delay |-> RetryDelay(job.retry_delay, job.retry_count)])
         /\ sleep_log' = [sleep_log EXCEPT ![t] =
                             Append(@, RetryDelay(job.retry_delay, job.retry_count))]
         /\ jobs' = [jobs EXCEPT ![t].pc = "sleep"]
    ELSE /\ StoreUpdate(t, FAILED,
               [error |-> err, retry_count |-> job.retry_count,
                result |-> [progress |-> 0]])
         /\ jobs' = [jobs EXCEPT ![t].pc = "returned"]
         /\ UNCHANGED sleep_log

\* the except block: lines 155-189
OnEngineFailure(t, job, err) ==
    IF Retryable(job.retry_count, job.max_retries)
    THEN /\ StoreUpdate(t, RETRYING,
               [error |-> err, retry_count |-> job.retry_count + 1,
                result |-> [progress |-> 0]])
         /\ sleep_log' = [sleep_log EXCEPT ![t] =
                             Append(@, RetryDelay(job.retry_delay, job.retry_count))]
         /\ jobs' = [jobs EXCEPT ![t].pc = "sleep"]
    ELSE /\ StoreUpdate(t, FAILED,
               [error |-> err, retry_count |-> job.retry_count,
                result |-> [progress |-> 0]])
         /\ jobs' = [jobs EXCEPT ![t].pc = "returned"]
         /\ UNCHANGED sleep_log

\* the awaited engine call returns or raises
process_watermark_task_engine(t, outcome) ==
    /\ t \in DOMAIN jobs /\ jobs[t].kind = "single" /\ jobs[t].pc = "engine"
    /\ engine_log' = [engine_log EXCEPT ![t] = Append(@, EngineCall(jobs[t].input_path, outcome))]
    /\ IF outcome.ok
       THEN OnEngineSuccess(t, jobs[t], apply_watermark(jobs[t].input_path))
       ELSE OnEngineFailure(t, jobs[t], outcome.err)
    /\ UNCHANGED <<issued, clock_vars, progress_vars, thread_vars, api_vars>>

\* a statement of the try block other than the awaited engine call raises
\* (loop.run_in_executor itself, an update of the store): the same except
\* block handles it
process_watermark_task_except(t, err) ==
    /\ t \in DOMAIN jobs /\ jobs[t].kind = "single" /\ jobs[t].pc = "engine"
    /\ OnEngineFailure(t, jobs[t], err)
    /\ UNCHANGED <<issued, engine_log, clock_vars, progress_vars, thread_vars, api_vars>>

\* the routine returns after the sleep without calling itself
process_watermark_task_retry_NoRecurse(t) ==
    /\ t \in DOMAIN jobs /\ jobs[t].kind = "single" /\ jobs[t].pc = "sleep"
    /\ jobs' = [jobs EXCEPT ![t].pc = "returned"]
    /\ UNCHANGED <<tasks_db, status_log, hook_log, issued, sleep_log, engine_log, clock_vars,
                   progress_vars, thread_vars, api_vars>>

\* asyncio.sleep(delay) is over: the routine calls itself with retry_count + 1
process_watermark_task_retry(t) ==
    /\ t \in DOMAIN jobs /\ jobs[t].kind = "single" /\ jobs[t].pc = "sleep"
    /\ EnterSingle(t, jobs[t].retry_count + 1)
    /\ UNCHANGED <<issued, sleep_log, engine_log, clock_vars, progress_vars, thread_vars, api_vars>>

(***************************************************************************)
(* process_batch_task.                                                     *)
(***************************************************************************)
\* the processed entries in the reverse of the order of the calls
ProcessedDicts_Reversed(processed) ==
    [i \in 1..Len(processed) |->
        [input |-> processed[Len(processed) + 1 - i][1],
         output |-> processed[Len(processed) + 1 - i][2]]]
RECURSIVE ProcessedDicts(_)
ProcessedDicts(processed) ==
    IF processed = <<>> THEN <<>>
    ELSE <<[input |-> Head(processed)[1], output |-> Head(processed)[2]]>>
         \o ProcessedDicts(Tail(processed))
RECURSIVE SkippedDicts(_)
SkippedDicts(skipped) ==
    IF skipped = <<>> THEN <<>>
    ELSE <<[file |-> Head(skipped)[1], reason |-> Head(skipped)[2]]>>
         \o SkippedDicts(Tail(skipped))

\* the skipped files are left out of the result
BatchResult_NoSkipped(file_paths, processed, skipped, progress) ==
    [total_files |-> Len(file_paths), processed |-> ProcessedDicts(processed),
     skipped |-> <<>>, progress |-> progress]

BatchResult(file_paths, processed, skipped, progress) ==
    [total_files |-> Len(file_paths), processed |-> ProcessedDicts(processed),
     skipped |-> SkippedDicts(skipped), progress |-> progress]

\* the routine enters its loop without the initial PROCESSING update
process_batch_task_start_NoProcessing(t) ==
    /\ t \in DOMAIN jobs /\ jobs[t].kind = "batch" /\ jobs[t].pc = "queued"
    /\ IF get_task(tasks_db, t) = {}
       THEN jobs' = [jobs EXCEPT ![t].pc = "returned"]
       ELSE jobs' = [jobs EXCEPT ![t].pc = "loop"]
    /\ UNCHANGED <<tasks_db, status_log, hook_log, issued, sleep_log, engine_log, clock_vars,
                   progress_vars, thread_vars, api_vars>>

process_batch_task_start(t) ==
    /\ t \in DOMAIN jobs /\ jobs[t].kind = "batch" /\ jobs[t].pc = "queued"
    /\ IF get_task(tasks_db, t) = {}
       THEN /\ jobs' = [jobs EXCEPT ![t].pc = "returned"]
            /\ UNCHANGED <<tasks_db, status_log, hook_log>>
       ELSE /\ StoreUpdate(t, PROCESSING,
                  [result |-> [total_files |-> Len(jobs[t].file_paths), processed |-> <<>>,
                               skipped |-> <<>>, progress |-> 0]])
            /\ jobs' = [jobs EXCEPT ![t].pc = "loop"]
    /\ UNCHANGED <<issued, sleep_log, engine_log, clock_vars, progress_vars, thread_vars, api_vars>>

\* one iteration of the loop: the engine call for the next file has returned
process_batch_task_file(t, outcome) ==
    /\ t \in DOMAIN jobs /\ jobs[t].kind = "batch" /\ jobs[t].pc = "loop"
    /\ jobs[t].idx < Len(jobs[t].file_paths)
    /\ LET job == jobs[t]
           idx == job.idx + 1
           file_path == job.file_paths[idx]
           processed == IF outcome.ok
                        THEN Append(job.processed, <<file_path, apply_watermark(file_path)>>)
                        ELSE job.processed
           skipped == IF outcome.ok THEN job.skipped
                      ELSE Append(job.skipped, <<file_path, outcome.err>>)
           progress == BatchProgress(idx, Len(job.file_paths))
       IN /\ StoreUpdate(t, PROCESSING,
                [result |-> BatchResult(job.file_paths, processed, skipped, progress)])
          /\ jobs' = [jobs EXCEPT ![t].idx = idx, ![t].processed = processed,
                                  ![t].skipped = skipped, ![t].progress = progress]
    /\ engine_log' = [engine_log EXCEPT ![t] =
           Append(@, EngineCall(jobs[t].file_paths[jobs[t].idx + 1], outcome))]
    /\ UNCHANGED <<issued, sleep_log, clock_vars, progress_vars, thread_vars, api_vars>>

\* the final progress is computed as int((done / len(file_paths)) * 100),
\* which divides by zero for an empty list: the outer except makes the
\* task FAILED
process_batch_task_complete_Computed(t) ==
    /\ t \in DOMAIN jobs /\ jobs[t].kind = "batch" /\ jobs[t].pc = "loop"
    /\ jobs[t].idx = Len(jobs[t].file_paths)
    /\ IF jobs[t].file_paths = <<>>
       THEN /\ StoreUpdate(t, FAILED,
                  [error |-> "division by zero",
                   result |-> BatchResult(jobs[t].file_paths, <<>>, <<>>, 0)])
            /\ jobs' = [jobs EXCEPT ![t].pc = "raised"]
       ELSE /\ StoreUpdate(t, COMPLETED,
                  [result |-> BatchResult(jobs[t].file_paths, jobs[t].processed,
                                          jobs[t].skipped, 100)])
            /\ jobs' = [jobs EXCEPT ![t].pc = "returned"]
    /\ UNCHANGED <<issued, sleep_log, engine_log, clock_vars, progress_vars, thread_vars, api_vars>>

process_batch_task_complete(t) ==
    /\ t \in DOMAIN jobs /\ jobs[t].kind = "batch" /\ jobs[t].pc = "loop"
    /\ jobs[t].idx = Len(jobs[t].file_paths)
    /\ StoreUpdate(t, COMPLETED,
          [result |-> BatchResult(jobs[t].file_paths, jobs[t].processed, jobs[t].skipped, 100)])
    /\ jobs' = [jobs EXCEPT ![t].pc = "returned"]
    /\ UNCHANGED <<issued, sleep_log, engine_log, clock_vars, progress_vars, thread_vars, api_vars>>

\* the except block reports an empty result
process_batch_task_except_Reset(t, err) ==
    /\ t \in DOMAIN jobs /\ jobs[t].kind = "batch" /\ jobs[t].pc = "loop"
    /\ StoreUpdate(t, FAILED,
          [error |-> err, result |-> BatchResult(jobs[t].file_paths, <<>>, <<>>, 0)])
    /\ jobs' = [jobs EXCEPT ![t].pc = "raised"]
    /\ UNCHANGED <<issued, sleep_log, engine_log, clock_vars, progress_vars, thread_vars, api_vars>>

\* the outer except: a statement of the driving loop outside the per-file
\* try has raised
process_batch_task_except(t, err) ==
    /\ t \in DOMAIN jobs /\ jobs[t].kind = "batch" /\ jobs[t].pc = "loop"
    /\ StoreUpdate(t, FAILED,
          [error |-> err,
           result |-> BatchResult(jobs[t].file_paths, jobs[t].processed, jobs[t].skipped,
                                  IF jobs[t].progress # Unbound THEN jobs[t].progress ELSE 0)])
    /\ jobs' = [jobs EXCEPT ![t].pc = "raised"]
    /\ UNCHANGED <<issued, sleep_log, engine_log, clock_vars, progress_vars, thread_vars, api_vars>>

(***************************************************************************)
(* The clock and run_server.cleanup_loop.                                  *)
(***************************************************************************)
Tick(d) ==
    /\ ticks < MaxTicks
    /\ ticks' = ticks + 1
    /\ now' = now + d
    /\ UNCHANGED <<store_vars, progress_vars, thread_vars, api_vars>>

\* one iteration of the loop during which the event loop thread does not run
cleanup_loop ==
    /\ tasks_db' = cleanup_old_tasks(tasks_db, CleanupHours, now)
    /\ UNCHANGED <<issued, jobs, status_log, sleep_log, hook_log, engine_log, clock_vars,
                   progress_vars, thread_vars, api_vars>>

(***************************************************************************)
(* The service.                                                            *)
(***************************************************************************)
NoLogs == [t \in TaskIds |-> <<>>]
\* the cleanup thread at the top of its loop
ReaperIdle ==
    [pc |-> "idle", cutoff |-> 0, used |-> 0, todo |-> {}, to_delete |-> {},
     cleaned |-> Unbound, errors |-> 0]

Init ==
    /\ tasks_db = EmptyDict
    /\ issued = 0
    /\ jobs = EmptyDict
    /\ status_log = NoLogs
    /\ sleep_log = NoLogs
    /\ hook_log = NoLogs
    /\ engine_log = NoLogs
    /\ now = 0
    /\ ticks = 0
    /\ p_total = 0
    /\ p_idx = 0
    /\ p_out = Unbound
    /\ environ = NoEnviron
    /\ reaper = ReaperIdle
    /\ API_KEY = ConfiguredKey
    /\ exchange = NoExchange
    /\ delivered = 0
    /\ styles = NoStyles

\* the delay is a blocking time.sleep: while the routine of one task sleeps,
\* the event loop runs no other routine
JobStep_BlockingSleep(t) ==
    /\ \A u \in DOMAIN jobs \ {t} : jobs[u].pc # "sleep"
    /\ \/ process_watermark_task_start(t)
       \/ \E outcome \in EngineOutcomes : process_watermark_task_engine(t, outcome)
       \/ process_watermark_task_retry(t)
       \/ process_batch_task_start(t)
       \/ \E outcome \in EngineOutcomes : process_batch_task_file(t, outcome)
       \/ process_batch_task_complete(t)
       \/ \E err \in OrchErrors : process_batch_task_except(t, err)

JobStep(t) ==
    \/ process_watermark_task_start(t)
    \/ \E outcome \in EngineOutcomes : process_watermark_task_engine(t, outcome)
    \/ process_watermark_task_retry(t)
    \/ process_batch_task_start(t)
    \/ \E outcome \in EngineOutcomes : process_batch_task_file(t, outcome)
    \/ process_batch_task_complete(t)
    \/ \E err \in OrchErrors : process_batch_task_except(t, err)

Next ==
    \/ upload_and_watermark
    \/ \E file_paths \in BatchRequests : watermark_batch(file_paths)
    \/ \E t \in TaskIds : JobStep(t)
    \/ \E d \in TickHours : Tick(d)
    \/ cleanup_loop

Spec == Init /\ [][Next]_vars

(***************************************************************************)
(* One task driven from creation to the return of its background routine:  *)
(* a single-file task created with any max_retries and retry_delay, or a   *)
(* batch task over any list of files.                                      *)
(***************************************************************************)
TaskBatches == {PathList(n) : n \in 0..MaxBatch}
\* the hooks of a deployment: none set, all set to a URL, all set to a
\* program, or one of each
HookEnvs ==
    {[k \in HookKeys |-> hook] : hook \in HookTargets}
    \cup {[k \in HookKeys |->
              CASE k = "START_HOOK" -> NoHook
                [] k = "COMPLETE_HOOK" -> "http://hooks/notify"
                [] k = "ERROR_HOOK" -> "/usr/local/bin/notify"]}
TaskInputs ==
    {[max_retries |-> m, retry_delay |-> d, job |-> SingleJob(UploadPath(1))] :
        m \in 0..MaxRetries, d \in RetryDelays}
    \cup {[max_retries |-> DefaultMaxRetries, retry_delay |-> DefaultRetryDelay,
           job |-> BatchJob(file_paths)] : file_paths \in TaskBatches}

InitTask ==
    /\ \E in \in TaskInputs :
          /\ tasks_db = create_task(EmptyDict, 1, in.max_retries, in.retry_delay, 0)
          /\ jobs = [i \in {1} |-> in.job]
    /\ issued = 1
    /\ status_log = [NoLogs EXCEPT ![1] = <<PENDING>>]
    /\ sleep_log = NoLogs
    /\ hook_log = NoLogs
    /\ engine_log = NoLogs
    /\ now = 0
    /\ ticks = 0
    /\ p_total = 0
    /\ p_idx = 0
    /\ p_out = Unbound
    /\ environ \in HookEnvs
    /\ reaper = ReaperIdle
    /\ API_KEY = ConfiguredKey
    /\ exchange = NoExchange
    /\ delivered = 0
    /\ styles = NoStyles

NextTask == \E t \in TaskIds : JobStep(t)

SpecTask == InitTask /\ [][NextTask]_vars

\* the event loop runs every scheduled routine, an engine call returns or
\* raises, and a sleep ends; nothing makes the driving loop raise
JobFairness(t) ==
    /\ WF_vars(process_watermark_task_start(t))
    /\ WF_vars(\E outcome \in EngineOutcomes : process_watermark_task_engine(t, outcome))
    /\ WF_vars(process_watermark_task_retry(t))
    /\ WF_vars(process_batch_task_start(t))
    /\ WF_vars(\E outcome \in EngineOutcomes : process_batch_task_file(t, outcome))
    /\ WF_vars(process_batch_task_complete(t))

FairTask == SpecTask /\ \A t \in TaskIds : JobFairness(t)

(***************************************************************************)
(* One task as above, where the driving routine of a single-file task may  *)
(* raise as well.                                                          *)
(***************************************************************************)
NextOrch ==
    \E t \in TaskIds :
        \/ JobStep(t)
        \/ \E err \in OrchErrors : process_watermark_task_except(t, err)

SpecOrch == InitTask /\ [][NextOrch]_vars

(***************************************************************************)
(* TaskManager.cleanup_old_tasks taken alone, on a store of tasks as the   *)
(* routines leave them: PENDING, PROCESSING and RETRYING tasks created     *)
(* two retention periods ago, COMPLETED and FAILED tasks completed 1, 24   *)
(* or 25 hours ago.  The routines of these tasks are not followed.         *)
(***************************************************************************)
AgeHours == {1, CleanupHours, CleanupHours + 1}
RetentionHours == {1, CleanupHours}
DrawnNow == 2 * CleanupHours
DrawnIds == (MaxTasks + 1)..(MaxTasks + MaxStore)

StoredTask(task_id, status, age) ==
    LET created == Task(task_id, DefaultMaxRetries, DefaultRetryDelay, 0)
        started == updated_task(created, PROCESSING, [result |-> [progress |-> 0]], 0)
    IN CASE status = PENDING -> created
         [] status = PROCESSING -> started
         [] status = RETRYING ->
               updated_task(started, RETRYING,
                  [error |-> "E1", retry_count |-> 1, result |-> [progress |-> 0]], 0)
         [] status = COMPLETED ->
               updated_task(started, COMPLETED,
                  [result |-> [output_path |-> apply_watermark(UploadPath(task_id)),
                               progress |-> 100]], DrawnNow - age)
         [] status = FAILED ->
               updated_task(started, FAILED,
                  [error |-> "E1", retry_count |-> DefaultMaxRetries,
                   result |-> [progress |-> 0]], DrawnNow - age)

StoredTasks(task_id) ==
    {StoredTask(task_id, status, 0) : status \in TaskStatus \ Terminal}
    \cup {StoredTask(task_id, status, age) : status \in Terminal, age \in AgeHours}

DrawnStores ==
    UNION {{db \in [MaxTasks + 1..MaxTasks + n -> UNION {StoredTasks(i) : i \in DrawnIds}] :
               \A i \in DOMAIN db : db[i].task_id = i} : n \in 0..MaxStore}

InitSweep ==
    /\ tasks_db \in DrawnStores
    /\ issued = 0
    /\ jobs = EmptyDict
    /\ status_log = NoLogs
    /\ sleep_log = NoLogs
    /\ hook_log = NoLogs
    /\ engine_log = NoLogs
    /\ now = DrawnNow
    /\ ticks = 0
    /\ p_total = 0
    /\ p_idx = 0
    /\ p_out = Unbound
    /\ environ = NoEnviron
    /\ reaper = ReaperIdle
    /\ API_KEY = ConfiguredKey
    /\ exchange = NoExchange
    /\ delivered = 0
    /\ styles = NoStyles

\* cleaned = TaskManager.cleanup_old_tasks(hours)
cleanup_old_tasks_call(hours) ==
    /\ tasks_db' = cleanup_old_tasks(tasks_db, hours, now)
    /\ reaper' = [reaper EXCEPT !.cutoff = Cutoff(now, hours),
                                !.cleaned = cleanup_old_tasks_return(tasks_db, hours, now)]
    /\ UNCHANGED <<issued, jobs, status_log, sleep_log, hook_log, engine_log, clock_vars,
                   progress_vars, environ, api_vars>>

NextSweep == \E hours \in RetentionHours : cleanup_old_tasks_call(hours)

SpecSweep == InitSweep /\ [][NextSweep]_vars

(***************************************************************************)
(* The cleanup thread step by step.  cleanup_loop runs in a thread of its  *)
(* own while the request handlers run in the event loop thread, so a       *)
(* handler may run between any two steps of the iteration                  *)
(*   [tid for tid, t in _tasks_db.items() if ...]                          *)
(* and a dict that has changed size makes the next step of its iterator    *)
(* raise RuntimeError.  The end of time.sleep(3600) is not tied to the     *)
(* clock of the model.                                                     *)
(***************************************************************************)
Min(S) == CHOOSE x \in S : \A y \in S : x <= y

\* cleanup_old_tasks(hours=24) is entered: the cutoff is computed and the
\* iterator over _tasks_db.items() is created
cleanup_loop_begin ==
    /\ reaper.pc = "idle"
    /\ reaper' = [reaper EXCEPT !.pc = "scan", !.cutoff = Cutoff(now, CleanupHours),
                                !.used = Cardinality(DOMAIN tasks_db),
                                !.todo = DOMAIN tasks_db, !.to_delete = {}]
    /\ UNCHANGED <<store_vars, clock_vars, progress_vars, environ, api_vars>>

\* an exception of the sweep ends the thread
cleanup_loop_next_Dies ==
    /\ reaper.pc = "scan"
    /\ IF Cardinality(DOMAIN tasks_db) # reaper.used
       THEN reaper' = [reaper EXCEPT !.pc = "dead", !.errors = @ + 1,
                                     !.todo = {}, !.to_delete = {}]
       ELSE IF reaper.todo # {}
       THEN LET tid == Min(reaper.todo)
            IN reaper' = [reaper EXCEPT
                   !.todo = @ \ {tid},
                   !.to_delete = IF Expired(tasks_db[tid], reaper.cutoff)
                                 THEN @ \cup {tid} ELSE @]
       ELSE reaper' = [reaper EXCEPT !.pc = "delete", !.todo = reaper.to_delete]
    /\ UNCHANGED <<store_vars, clock_vars, progress_vars, environ, api_vars>>

\* the iterator is asked for its next item: it raises when the dict has
\* changed size (the except of cleanup_loop logs the error and the loop
\* goes to sleep), yields an item, which is tested, or is exhausted
cleanup_loop_next ==
    /\ reaper.pc = "scan"
    /\ IF Cardinality(DOMAIN tasks_db) # reaper.used
       THEN reaper' = [reaper EXCEPT !.pc = "sleep", !.errors = @ + 1,
                                     !.todo = {}, !.to_delete = {}]
       ELSE IF reaper.todo # {}
       THEN LET tid == Min(reaper.todo)
            IN reaper' = [reaper EXCEPT
                   !.todo = @ \ {tid},
                   !.to_delete = IF Expired(tasks_db[tid], reaper.cutoff)
                                 THEN @ \cup {tid} ELSE @]
       ELSE reaper' = [reaper EXCEPT !.pc = "delete", !.todo = reaper.to_delete]
    /\ UNCHANGED <<store_vars, clock_vars, progress_vars, environ, api_vars>>

\* for tid in to_delete: del _tasks_db[tid], then return len(to_delete)
cleanup_loop_del ==
    /\ reaper.pc = "delete"
    /\ IF reaper.todo # {}
       THEN LET tid == Min(reaper.todo)
            IN /\ tasks_db' = [i \in DOMAIN tasks_db \ {tid} |-> tasks_db[i]]
               /\ reaper' = [reaper EXCEPT !.todo = @ \ {tid}]
       ELSE /\ reaper' = [reaper EXCEPT !.pc = "sleep",
                                        !.cleaned = Cardinality(reaper.to_delete)]
            /\ UNCHANGED tasks_db
    /\ UNCHANGED <<issued, jobs, status_log, sleep_log, hook_log, engine_log, clock_vars,
                   progress_vars, environ, api_vars>>

\* time.sleep(3600) is over: the next iteration of while True
cleanup_loop_sleep ==
    /\ reaper.pc = "sleep"
    /\ reaper' = [reaper EXCEPT !.pc = "idle", !.cleaned = Unbound, !.to_delete = {}]
    /\ UNCHANGED <<store_vars, clock_vars, progress_vars, environ, api_vars>>

\* the sweep tells tasks apart by completed_at only: the stores of running
\* tasks and of tasks completed 1, 24 or 25 hours ago
ReaperStores ==
    {db \in DrawnStores : \A i \in DOMAIN db : db[i].status \in {PROCESSING, COMPLETED}}

InitReaper ==
    /\ tasks_db \in ReaperStores
    /\ issued = 0
    /\ jobs = EmptyDict
    /\ status_log = NoLogs
    /\ sleep_log = NoLogs
    /\ hook_log = NoLogs
    /\ engine_log = NoLogs
    /\ now = DrawnNow
    /\ ticks = 0
    /\ p_total = 0
    /\ p_idx = 0
    /\ p_out = Unbound
    /\ environ = NoEnviron
    /\ reaper = ReaperIdle
    /\ API_KEY = ConfiguredKey
    /\ exchange = NoExchange
    /\ delivered = 0
    /\ styles = NoStyles

NextReaper ==
    \/ upload_and_watermark
    \/ \E d \in TickHours : Tick(d)
    \/ cleanup_loop_begin
    \/ cleanup_loop_next
    \/ cleanup_loop_del
    \/ cleanup_loop_sleep

SpecReaper == InitReaper /\ [][NextReaper]_vars

\* the cleanup thread is scheduled
ReaperFairness ==
    /\ WF_vars(cleanup_loop_begin)
    /\ WF_vars(cleanup_loop_next)
    /\ WF_vars(cleanup_loop_del)
    /\ WF_vars(cleanup_loop_sleep)

FairReaper == SpecReaper /\ ReaperFairness

(***************************************************************************)
(* The progress computation of the batch loop taken alone: for a list of   *)
(* p_total files, idx runs over 1..p_total as in                           *)
(* enumerate(file_paths, 1) and p_out is the progress computed for it.     *)
(***************************************************************************)
InitProgress ==
    /\ tasks_db = EmptyDict
    /\ issued = 0
    /\ jobs = EmptyDict
    /\ status_log = NoLogs
    /\ sleep_log = NoLogs
    /\ hook_log = NoLogs
    /\ engine_log = NoLogs
    /\ now = 0
    /\ ticks = 0
    /\ p_total \in 1..MaxTotal
    /\ p_idx = 0
    /\ p_out = Unbound
    /\ environ = NoEnviron
    /\ reaper = ReaperIdle
    /\ API_KEY = ConfiguredKey
    /\ exchange = NoExchange
    /\ delivered = 0
    /\ styles = NoStyles

ProgressStep ==
    /\ p_idx < p_total
    /\ p_idx' = p_idx + 1
    /\ p_out' = BatchProgress(p_idx + 1, p_total)
    /\ UNCHANGED <<p_total, store_vars, clock_vars, thread_vars, api_vars>>

NextProgress == ProgressStep

SpecProgress == InitProgress /\ [][NextProgress]_vars

(***************************************************************************)
(* Two tasks on the event loop: task 1 is a single-file upload, task 2 a   *)
(* single-file upload or a batch.  The event loop interleaves the steps of *)
(* their routines; `await asyncio.sleep(delay)` hands the loop back, so    *)
(* the routine of a task is in "sleep" while the other one runs.           *)
(***************************************************************************)
PairIds == {1, 2}
PairLogs == [t \in PairIds |-> <<>>]
PairJobs ==
    {SingleJob(UploadPath(2))} \cup {BatchJob(file_paths) : file_paths \in BatchRequests}

InitPair ==
    /\ \E job \in PairJobs :
          /\ tasks_db = create_task(
                 create_task(EmptyDict, 1, DefaultMaxRetries, DefaultRetryDelay, 0),
                 2, DefaultMaxRetries, DefaultRetryDelay, 0)
          /\ jobs = [i \in PairIds |-> IF i = 1 THEN SingleJob(UploadPath(1)) ELSE job]
    /\ issued = 2
    /\ status_log = [t \in PairIds |-> <<PENDING>>]
    /\ sleep_log = PairLogs
    /\ hook_log = PairLogs
    /\ engine_log = PairLogs
    /\ now = 0
    /\ ticks = 0
    /\ p_total = 0
    /\ p_idx = 0
    /\ p_out = Unbound
    /\ environ = NoEnviron
    /\ reaper = ReaperIdle
    /\ API_KEY = ConfiguredKey
    /\ exchange = NoExchange
    /\ delivered = 0
    /\ styles = NoStyles

NextPair == \E t \in PairIds : JobStep(t)

SpecPair == InitPair /\ [][NextPair]_vars

\* the event loop keeps running the routine of task 2; nothing is assumed
\* about when, or whether, a sleep of task 1 ends
FairPair == SpecPair /\ WF_vars(JobStep(2))

(***************************************************************************)
(* The HTTP interface taken alone: requests to the three task endpoints    *)
(* and sweeps, on a store that holds at most one older task, with API_KEY  *)
(* set or unset.  The routines of the tasks are not followed.              *)
(***************************************************************************)
ApiStores == {db \in ReaperStores : Cardinality(DOMAIN db) <= 1}
ApiIds == TaskIds \cup DrawnIds

InitApi ==
    /\ tasks_db \in ApiStores
    /\ issued = 0
    /\ jobs = EmptyDict
    /\ status_log = NoLogs
    /\ sleep_log = NoLogs
    /\ hook_log = NoLogs
    /\ engine_log = NoLogs
    /\ now = DrawnNow
    /\ ticks = 0
    /\ p_total = 0
    /\ p_idx = 0
    /\ p_out = Unbound
    /\ environ = NoEnviron
    /\ reaper = ReaperIdle
    /\ API_KEY \in ApiKeys
    /\ exchange = NoExchange
    /\ delivered = 0
    /\ styles = NoStyles

NextApi ==
    \/ \E request \in UploadRequests : upload_and_watermark_request(request)
    \/ \E request \in BatchHttpRequests : watermark_batch_request(request)
    \/ \E request \in StatusRequests(ApiIds) : get_task_status_request(request)
    \/ \E request \in FileRequests : files_request(request)
    \/ \E hours \in RetentionHours : cleanup_old_tasks_call(hours)

SpecApi == InitApi /\ [][NextApi]_vars

(***************************************************************************)
(* The two routines called with identifiers the store does not hold, on a  *)
(* store of other tasks, under every hook environment.                     *)
(***************************************************************************)
EntryJobs ==
    {SingleJob(UploadPath(0))} \cup {BatchJob(file_paths) : file_paths \in BatchRequests}

InitEntry ==
    /\ tasks_db \in ReaperStores
    /\ issued = 0
    /\ jobs \in [TaskIds -> EntryJobs]
    /\ status_log = NoLogs
    /\ sleep_log = NoLogs
    /\ hook_log = NoLogs
    /\ engine_log = NoLogs
    /\ now = DrawnNow
    /\ ticks = 0
    /\ p_total = 0
    /\ p_idx = 0
    /\ p_out = Unbound
    /\ environ \in HookEnvs
    /\ reaper = ReaperIdle
    /\ API_KEY = ConfiguredKey
    /\ exchange = NoExchange
    /\ delivered = 0
    /\ styles = NoStyles

NextEntry ==
    \E t \in TaskIds :
        \/ process_watermark_task_start(t)
        \/ process_batch_task_start(t)

SpecEntry == InitEntry /\ [][NextEntry]_vars

(***************************************************************************)
(* The command line (cli.py): one run of cli_main on a list of files.      *)
(***************************************************************************)
MaxCliFiles == 3
\* files named on the command line: an image, an image ffmpeg fails on, a
\* path that is no file, a file of another type, an output of an earlier run
CliFiles == {"red.jpg", "broken.jpg", "missing.jpg", "notes.txt", "red_watermarked.jpg"}
CliArgs == UNION {[1..n -> CliFiles] : n \in 1..MaxCliFiles}

\* the parameters of process_files, and the call cli_main makes: two
\* positional arguments and three keyword arguments
process_files_params == <<"files", "watermark_text", "position", "config">>
cli_main_call == [positional |-> 2, keywords |-> {"position", "config", "progress_callback"}]
\* Python binds a call when every keyword names a parameter that no
\* positional argument has filled; otherwise the call raises TypeError
Binds(params, call) ==
    /\ call.positional <= Len(params)
    /\ call.keywords \subseteq {params[i] : i \in (call.positional + 1)..Len(params)}

\* process_files: what becomes of each file, in order
FileOutcome(file_path) ==
    CASE file_path = "missing.jpg" -> [ok |-> FALSE, reason |-> "File not found"]
      [] file_path = "notes.txt" -> [ok |-> FALSE, reason |-> "Unsupported file type"]
      [] file_path = "red_watermarked.jpg" -> [ok |-> FALSE, reason |-> "Already watermarked"]
      [] file_path = "broken.jpg" -> [ok |-> FALSE, reason |-> "Error applying watermark"]
      [] OTHER -> [ok |-> TRUE, output |-> apply_watermark(file_path)]
process_files(files) ==
    [processed |-> SelectSeq(files, LAMBDA f : FileOutcome(f).ok),
     skipped |-> SelectSeq(files, LAMBDA f : ~FileOutcome(f).ok)]

\* cli_main(argv): the exit code it returns, or the exception it raises
cli_main(files) ==
    IF ~Binds(process_files_params, cli_main_call)
    THEN [raised |-> "TypeError"]
    ELSE [returned |-> IF process_files(files).processed # <<>> THEN 0 ELSE 1]
\* main: sys.exit(cli_main(argv)); an exception that is not caught ends the
\* interpreter with status 1
ExitStatus(outcome) == IF "raised" \in DOMAIN outcome THEN 1 ELSE outcome.returned

main(files) ==
    /\ exchange' = [request |-> [endpoint |-> "cli", files |-> files],
                    response |-> [outcome |-> cli_main(files),
                                  returncode |-> ExitStatus(cli_main(files))]]
    /\ UNCHANGED <<store_vars, clock_vars, progress_vars, thread_vars, API_KEY, delivered,
                   styles>>

NextCli == \E files \in CliArgs : main(files)

SpecCli == Init /\ [][NextCli]_vars

(***************************************************************************)
(* Hook deliveries on the event loop.  The routines of the tasks and the   *)
(* handler of the status endpoint are coroutines of one event loop, and    *)
(* update_task_status calls trigger_hook in line: a URL hook is posted     *)
(* with urllib.request.urlopen(req, timeout=5), a synchronous call that    *)
(* keeps the thread of the loop until the response or the timeout, while a *)
(* program hook is started with subprocess.Popen, which returns at once.   *)
(* `delivered` counts the URL requests that have returned; a call recorded *)
(* in hook_log and not yet counted is in flight.                           *)
(***************************************************************************)
\* hook.startswith("http://") or hook.startswith("https://")
is_url(hook) == hook \in {"http://hooks/notify"}
UrlCalls == {<<t, i>> \in PairIds \X (1..(3 * (MaxRetries + 2))) :
                i <= Len(hook_log[t]) /\ is_url(hook_log[t][i].hook)}
InFlight == Cardinality(UrlCalls) > delivered

\* trigger_hook, then update_task_status, return to the coroutine
trigger_hook_return ==
    /\ InFlight
    /\ delivered' = delivered + 1
    /\ UNCHANGED <<store_vars, clock_vars, progress_vars, thread_vars, API_KEY, exchange, styles>>

\* the event loop runs a step of a coroutine when its thread is free
loop_JobStep(t) == ~InFlight /\ JobStep(t)
loop_get_task_status(request) == ~InFlight /\ get_task_status_request(request)

\* task 1 is an upload with one retry, task 2 an upload without retries
InitHook ==
    /\ tasks_db = create_task(create_task(EmptyDict, 1, 1, DefaultRetryDelay, 0),
                              2, 0, DefaultRetryDelay, 0)
    /\ jobs = [i \in PairIds |-> SingleJob(UploadPath(i))]
    /\ issued = 2
    /\ status_log = [t \in PairIds |-> <<PENDING>>]
    /\ sleep_log = PairLogs
    /\ hook_log = PairLogs
    /\ engine_log = PairLogs
    /\ now = 0
    /\ ticks = 0
    /\ p_total = 0
    /\ p_idx = 0
    /\ p_out = Unbound
    /\ environ \in HookEnvs
    /\ reaper = ReaperIdle
    /\ API_KEY = ConfiguredKey
    /\ exchange = NoExchange
    /\ delivered = 0
    /\ styles = NoStyles

NextHook ==
    \/ \E t \in PairIds : loop_JobStep(t)
    \/ \E request \in StatusRequests(PairIds) : loop_get_task_status(request)
    \/ trigger_hook_return

SpecHook == InitHook /\ [][NextHook]_vars

(***************************************************************************)
(* Style overrides.  `config` is the dict load_config() returned when the  *)
(* module was imported; dicts are objects, so the model keeps a heap of    *)
(* them: styles.heap[ConfigRef] is `config`, and each handler call adds    *)
(* the dict it hands to the routine of its task.  styles.calls lists the   *)
(* requests with the reference of their dict, their overrides and, once    *)
(* apply_watermark has run for them, the values it drew the text with.     *)
(* Calls of apply_watermark run on executor threads in any order.          *)
(***************************************************************************)
MaxRequests == 2
\* None for a style parameter: a string one, an integer one
NoneStyle == "<None>"
NoneInt == NoneTime
NoneOf(k) == IF k \in {"padding", "border_thickness"} THEN NoneInt ELSE NoneStyle
\* os.path.isfile(font_file)
FontFiles == {"Custom.ttf"}
NoOverrides ==
    [font_file |-> NoneStyle, padding |-> NoneInt, font_color |-> NoneStyle,
     border_color |-> NoneStyle, border_thickness |-> NoneInt]
\* the style parameters of a request: none, one of them, or all of them
StyleOverrides ==
    {NoOverrides,
     [NoOverrides EXCEPT !.font_file = "Custom.ttf"],
     [NoOverrides EXCEPT !.font_file = "Missing.ttf"],
     [NoOverrides EXCEPT !.padding = 10],
     [NoOverrides EXCEPT !.font_color = "000000"],
     [NoOverrides EXCEPT !.border_color = "FF0000"],
     [NoOverrides EXCEPT !.border_thickness = 5],
     [font_file |-> "Custom.ttf", padding |-> 10, font_color |-> "000000",
      border_color |-> "FF0000", border_thickness |-> 5]}

\* cfg = config: the handler hands the module-level dict itself to the task
handler_cfg_Alias(heap, font_file) ==
    LET ref == ConfigRef
    IN  [ref |-> ref,
         heap |-> IF font_file # NoneStyle /\ font_file \in FontFiles
                  THEN [heap EXCEPT ![ref].font_file = font_file]
                  ELSE heap]
\* cfg = config.copy(), then cfg["font_file"] = font_file when the file
\* exists: a new dict with the entries of `config`
handler_cfg(heap, font_file) ==
    LET ref == Cardinality(DOMAIN heap)
        copy == heap[ConfigRef]
    IN  [ref |-> ref,
         heap |-> [r \in DOMAIN heap \cup {ref} |->
                     IF r # ref THEN heap[r]
                     ELSE IF font_file # NoneStyle /\ font_file \in FontFiles
                     THEN [copy EXCEPT !.font_file = font_file]
                     ELSE copy]]

\* the overrides of apply_watermark: cfg[key] = value for each parameter
\* that is not None, written into the dict it was given
apply_overrides(cfg, overrides) ==
    [k \in DOMAIN cfg |->
        IF k # "font_file" /\ overrides[k] # NoneOf(k) THEN overrides[k] ELSE cfg[k]]

\* upload_and_watermark, watermark_batch or video_sample with the style
\* parameters `overrides`, up to the scheduling of apply_watermark
style_request(overrides) ==
    /\ Len(styles.calls) < MaxRequests
    /\ LET cfg == handler_cfg(styles.heap, overrides.font_file)
       IN  styles' = [heap |-> cfg.heap,
                      calls |-> Append(styles.calls,
                                  [ref |-> cfg.ref, overrides |-> overrides,
                                   done |-> FALSE, used |-> LoadedConfig])]
    /\ UNCHANGED <<store_vars, clock_vars, progress_vars, thread_vars, API_KEY, exchange,
                   delivered>>

\* apply_watermark runs for the i-th request: it writes the overrides into
\* its dict and draws with the values the dict then holds
style_apply(i) ==
    /\ i \in 1..Len(styles.calls)
    /\ ~styles.calls[i].done
    /\ LET call == styles.calls[i]
           cfg == apply_overrides(styles.heap[call.ref], call.overrides)
       IN  styles' = [heap |-> [styles.heap EXCEPT ![call.ref] = cfg],
                      calls |-> [styles.calls EXCEPT ![i].done = TRUE, ![i].used = cfg]]
    /\ UNCHANGED <<store_vars, clock_vars, progress_vars, thread_vars, API_KEY, exchange,
                   delivered>>

NextStyle ==
    \/ \E overrides \in StyleOverrides : style_request(overrides)
    \/ \E i \in 1..MaxRequests : style_apply(i)

SpecStyle == Init /\ [][NextStyle]_vars

(***************************************************************************)
(* Properties.                                                             *)
(***************************************************************************)
Last(seq) == seq[Len(seq)]
IsSingle(t) == t \in DOMAIN jobs /\ jobs[t].kind = "single"
IsBatch(t) == t \in DOMAIN jobs /\ jobs[t].kind = "batch"
FailedCalls(t) == {i \in 1..Len(engine_log[t]) : ~engine_log[t][i].outcome.ok}
TerminalEntries(t) == {i \in 1..Len(status_log[t]) : status_log[t][i] \in Terminal}

AllowedEdges ==
    {<<PENDING, PROCESSING>>, <<PROCESSING, COMPLETED>>, <<PROCESSING, RETRYING>>,
     <<RETRYING, PROCESSING>>, <<PROCESSING, FAILED>>, <<PROCESSING, PROCESSING>>}

\* C1: the statuses the store holds for a task start at PENDING and follow
\* only the edges PENDING->PROCESSING, PROCESSING->COMPLETED,
\* PROCESSING->RETRYING, RETRYING->PROCESSING, PROCESSING->FAILED and
\* PROCESSING->PROCESSING; nothing follows COMPLETED or FAILED, and a
\* terminal status is preceded by PROCESSING.
C1_StatusEdges ==
    \A t \in TaskIds :
        LET log == status_log[t] IN
        /\ log # <<>> => log[1] = PENDING
        /\ \A i \in 1..(Len(log) - 1) : <<log[i], log[i + 1]>> \in AllowedEdges
        /\ \A i \in 1..Len(log) :
              log[i] \in Terminal => \E j \in 1..(i - 1) : log[j] = PROCESSING
        /\ t \in DOMAIN tasks_db => tasks_db[t].status = Last(log)

\* a single-file task that was retried and ended FAILED
C1_Witness ==
    \E t \in DOMAIN tasks_db :
        /\ tasks_db[t].status = FAILED
        /\ \E i \in 1..Len(status_log[t]) : status_log[t][i] = RETRYING

\* C2: under fair scheduling of the background routine, the engine call
\* and the backoff timer, every task whose background work has started
\* reaches COMPLETED or FAILED, exactly one of them and only once.
C2_ReachesTerminal ==
    \A t \in TaskIds :
        (t \in DOMAIN jobs /\ jobs[t].pc # "queued")
            ~> (/\ status_log[t] # <<>>
                /\ Last(status_log[t]) \in Terminal
                /\ Cardinality(TerminalEntries(t)) = 1)

\* a single-file task that ended FAILED after two or more retries
C2_Witness ==
    \E t \in DOMAIN tasks_db :
        /\ IsSingle(t) /\ jobs[t].pc = "returned"
        /\ tasks_db[t].status = FAILED /\ Len(sleep_log[t]) >= 2

\* C3: retry_count never exceeds max_retries.
C3_RetryBound ==
    \A t \in DOMAIN tasks_db : tasks_db[t].retry_count <= tasks_db[t].max_retries

\* a task waiting for its last retry
C3_Witness ==
    \E t \in DOMAIN tasks_db :
        /\ tasks_db[t].status = RETRYING
        /\ tasks_db[t].max_retries >= 2
        /\ tasks_db[t].retry_count = tasks_db[t].max_retries

\* C4: a single-file task is FAILED only with retry_count = max_retries,
\* and a single-file task whose every engine call failed ends FAILED.
C4_FailedAtMax ==
    \A t \in DOMAIN tasks_db :
        IsSingle(t) =>
            /\ tasks_db[t].status = FAILED =>
                  tasks_db[t].retry_count = tasks_db[t].max_retries
            /\ (jobs[t].pc = "returned" /\ FailedCalls(t) = 1..Len(engine_log[t])) =>
                  tasks_db[t].status = FAILED

\* a task with max_retries = 3 that failed four times
C4_Witness ==
    \E t \in DOMAIN tasks_db :
        /\ IsSingle(t) /\ tasks_db[t].status = FAILED
        /\ tasks_db[t].max_retries = 3 /\ Len(engine_log[t]) = 4

\* C5: the i-th delay of a single-file task is retry_delay * 2^(i-1); there
\* is one delay per failure that was retried: none before the first engine
\* call, none after the failure that makes the task FAILED, and max_retries
\* of them when the task is FAILED.
C5_Backoff ==
    \A t \in DOMAIN tasks_db :
        IsSingle(t) =>
            /\ \A i \in 1..Len(sleep_log[t]) :
                  sleep_log[t][i] = tasks_db[t].retry_delay * 2^(i - 1)
            /\ Len(sleep_log[t]) =
                  Cardinality(FailedCalls(t)) - (IF tasks_db[t].status = FAILED THEN 1 ELSE 0)
            /\ tasks_db[t].status = FAILED => Len(sleep_log[t]) = tasks_db[t].max_retries

\* max_retries = 3, retry_delay = 5, every attempt failed
C5_Witness ==
    \E t \in DOMAIN tasks_db :
        /\ IsSingle(t) /\ tasks_db[t].status = FAILED
        /\ tasks_db[t].max_retries = 3
        /\ sleep_log[t] = <<5, 10, 20>>

\* C6: when the first engine call of a single-file task returns, the task
\* has gone PENDING -> PROCESSING -> COMPLETED and nothing else, with
\* retry_count 0, no error and result.output_path the path the engine
\* returned, and a status query reads "completed"; from then on the status
\* never changes, so no query reads "failed".
C6_FirstAttemptSuccess ==
    [][\A t \in TaskIds :
         /\ (process_watermark_task_engine(t, [ok |-> TRUE]) /\ jobs[t].retry_count = 0)
               => /\ status_log'[t] = <<PENDING, PROCESSING, COMPLETED>>
                  /\ t \in DOMAIN tasks_db'
                  /\ tasks_db'[t].retry_count = 0
                  /\ tasks_db'[t].error = NoneError
                  /\ "output_path" \in DOMAIN tasks_db'[t].result
                  /\ tasks_db'[t].result.output_path = apply_watermark(jobs[t].input_path)
                  /\ get_task_status(t)'.code = 200
                  /\ get_task_status(t)'.body.status = COMPLETED
         /\ (IsSingle(t) /\ Len(status_log[t]) >= 3
               /\ SubSeq(status_log[t], 1, 3) = <<PENDING, PROCESSING, COMPLETED>>)
               => /\ status_log'[t] = status_log[t]
                  /\ t \in DOMAIN tasks_db' => get_task_status(t)'.body.status = COMPLETED
      ]_vars

\* a single-file task completed by its first engine call
C6_Witness ==
    \E t \in DOMAIN tasks_db :
        /\ IsSingle(t) /\ jobs[t].pc = "returned"
        /\ Len(engine_log[t]) = 1 /\ engine_log[t][1].outcome.ok
        /\ tasks_db[t].status = COMPLETED

\* C7: as long as a task that is COMPLETED or FAILED is in the store, no
\* step changes the snapshot a status query returns for it.
C7_TerminalSnapshotStable ==
    [][\A t \in DOMAIN tasks_db :
         (tasks_db[t].status \in Terminal /\ t \in DOMAIN tasks_db')
            => get_task_status(t)' = get_task_status(t)]_vars

\* a terminal task still in the store after the clock has moved on
C7_Witness ==
    \E t \in DOMAIN tasks_db :
        /\ tasks_db[t].status \in Terminal
        /\ now > tasks_db[t].completed_at
        /\ get_task_status(t).code = 200

\* the entries process_batch_task is to report for the engine calls made
ExpectedProcessed(t) ==
    LET ok == SelectSeq(engine_log[t], LAMBDA c : c.outcome.ok)
    IN [i \in 1..Len(ok) |-> [input |-> ok[i].input, output |-> apply_watermark(ok[i].input)]]
ExpectedSkipped(t) ==
    LET ko == SelectSeq(engine_log[t], LAMBDA c : ~c.outcome.ok)
    IN [i \in 1..Len(ko) |-> [file |-> ko[i].input, reason |-> ko[i].outcome.err]]

\* C8: a batch task is FAILED only when the driving loop itself raised;
\* otherwise, whichever of its engine calls failed, it ends COMPLETED with
\* progress 100, one processed entry (input, output) per file whose call
\* succeeded and one skipped entry (file, reason) per file whose call failed.
C8_BatchCompletes ==
    \A t \in DOMAIN tasks_db :
        IsBatch(t) =>
            /\ tasks_db[t].status = FAILED => jobs[t].pc = "raised"
            /\ jobs[t].pc = "returned" =>
                  /\ tasks_db[t].status = COMPLETED
                  /\ Len(engine_log[t]) = Len(jobs[t].file_paths)
                  /\ \A i \in 1..Len(engine_log[t]) :
                        engine_log[t][i].input = jobs[t].file_paths[i]
                  /\ tasks_db[t].result.progress = 100
                  /\ tasks_db[t].result.total_files = Len(jobs[t].file_paths)
                  /\ tasks_db[t].result.processed = ExpectedProcessed(t)
                  /\ tasks_db[t].result.skipped = ExpectedSkipped(t)

\* three files, the second fails: 2 processed, 1 skipped naming the second
C8_Witness ==
    \E t \in DOMAIN tasks_db :
        /\ IsBatch(t) /\ tasks_db[t].status = COMPLETED
        /\ Len(jobs[t].file_paths) = 3
        /\ Len(tasks_db[t].result.processed) = 2
        /\ Len(tasks_db[t].result.skipped) = 1
        /\ tasks_db[t].result.skipped[1].file = jobs[t].file_paths[2]

StoredProgress(task) == IF task.result = NoneResult THEN 0 ELSE task.result.progress

\* C9: no store update of a batch task lowers result.progress, the FAILED
\* update included, and a COMPLETED batch task has progress 100.
C9_ProgressMonotone ==
    [][\A t \in DOMAIN tasks_db :
         (IsBatch(t) /\ t \in DOMAIN tasks_db')
            => /\ StoredProgress(tasks_db'[t]) >= StoredProgress(tasks_db[t])
               /\ tasks_db'[t].status = COMPLETED => StoredProgress(tasks_db'[t]) = 100]_vars

\* a batch of three files whose loop raised after the second file
C9_Witness ==
    \E t \in DOMAIN tasks_db :
        /\ IsBatch(t) /\ tasks_db[t].status = FAILED
        /\ Len(jobs[t].file_paths) = 3
        /\ tasks_db[t].result.progress = 66

\* C10: after the k-th of N files the progress computed is floor(100 * k / N).
C10_ProgressIsFloor ==
    p_idx >= 1 => p_out = (100 * p_idx) \div p_total

\* the inputs of the entries of a processed or skipped list, in order
ProcessedInputs(result) == [i \in 1..Len(result.processed) |-> result.processed[i].input]
SkippedFiles(result) == [i \in 1..Len(result.skipped) |-> result.skipped[i].file]
\* whether sub is seq restricted to the positions in keep, in the order of seq
RECURSIVE IsPick(_, _, _, _)
IsPick(sub, seq, keep, from) ==
    IF from > Len(seq) THEN sub = <<>>
    ELSE IF from \in keep
    THEN sub # <<>> /\ Head(sub) = seq[from] /\ IsPick(Tail(sub), seq, keep, from + 1)
    ELSE IsPick(sub, seq, keep, from + 1)

\* C11: the engine is called for the files of a batch in list order, once
\* each; after k calls the persisted processed and skipped lists hold the
\* first k inputs, each in exactly one of the two lists and each list in
\* input order, so their lengths add up to k, and to the total at COMPLETED.
C11_ListOrder ==
    \A t \in DOMAIN tasks_db :
        (IsBatch(t) /\ jobs[t].pc # "queued") =>
            LET k == jobs[t].idx
                paths == jobs[t].file_paths
                result == tasks_db[t].result
                ok == {i \in 1..k : engine_log[t][i].outcome.ok}
            IN /\ Len(engine_log[t]) = k
               /\ \A i \in 1..k : engine_log[t][i].input = paths[i]
               /\ IsPick(ProcessedInputs(result), paths, ok, 1)
               /\ IsPick(SkippedFiles(result), paths, (1..k) \ ok, 1)
               /\ Len(result.processed) + Len(result.skipped) = k
               /\ tasks_db[t].status = COMPLETED => k = result.total_files /\ k = Len(paths)

\* three files attempted: the first and third processed, the second skipped
C11_Witness ==
    \E t \in DOMAIN tasks_db :
        /\ IsBatch(t) /\ jobs[t].idx = 3
        /\ ProcessedInputs(tasks_db[t].result) = <<jobs[t].file_paths[1], jobs[t].file_paths[3]>>
        /\ SkippedFiles(tasks_db[t].result) = <<jobs[t].file_paths[2]>>

\* C12: when the driving loop of a batch raises after k files, the task is
\* FAILED with the exception message as error and a result holding the
\* processed entries, the skipped entries and the progress of those k
\* files: empty lists and progress 0 when k = 0.
C12_BatchExceptKeepsPartial ==
    \A t \in DOMAIN tasks_db :
        (IsBatch(t) /\ jobs[t].pc = "raised") =>
            LET k == Len(engine_log[t])
                n == Len(jobs[t].file_paths)
            IN /\ tasks_db[t].status = FAILED
               /\ tasks_db[t].error \in OrchErrors
               /\ tasks_db[t].completed_at # NoneTime
               /\ tasks_db[t].result.total_files = n
               /\ tasks_db[t].result.processed = ExpectedProcessed(t)
               /\ tasks_db[t].result.skipped = ExpectedSkipped(t)
               /\ tasks_db[t].result.progress = (IF k = 0 THEN 0 ELSE BatchProgress(k, n))
               /\ Last(status_log[t]) = FAILED

\* the loop raised after one file was processed and one was skipped
C12_Witness ==
    \E t \in DOMAIN tasks_db :
        /\ IsBatch(t) /\ jobs[t].pc = "raised"
        /\ Len(tasks_db[t].result.processed) = 1
        /\ Len(tasks_db[t].result.skipped) = 1
        /\ tasks_db[t].result.progress = 66

\* the loop raised before any file
C12_WitnessEmpty ==
    \E t \in DOMAIN tasks_db :
        /\ IsBatch(t) /\ jobs[t].pc = "raised" /\ Len(jobs[t].file_paths) = 3
        /\ tasks_db[t].result.processed = <<>> /\ tasks_db[t].result.skipped = <<>>
        /\ tasks_db[t].result.progress = 0

RetryingEntries(t) == {i \in 1..Len(status_log[t]) : status_log[t][i] = RETRYING}

\* C13: in the single-file path only a failure of the engine call is
\* retried: every RETRYING a task has been given and every delay it has
\* waited answers to an engine call that raised, so an exception of the
\* driving routine makes the task FAILED with no retry.
C13_OnlyEngineFailuresRetried ==
    \A t \in DOMAIN tasks_db :
        IsSingle(t) =>
            /\ Cardinality(RetryingEntries(t)) <= Cardinality(FailedCalls(t))
            /\ Len(sleep_log[t]) <= Cardinality(FailedCalls(t))

HookCalls(t, event) == {i \in 1..Len(hook_log[t]) : hook_log[t][i].event = event}

\* C14: the "start" event is dispatched exactly once per task, on its
\* first transition into PROCESSING: never before it, and never again on a
\* RETRYING -> PROCESSING re-entry or a PROCESSING -> PROCESSING update;
\* a RETRYING transition dispatches nothing.
C14_StartOnce ==
    \A t \in TaskIds :
        /\ Cardinality(HookCalls(t, "start")) =
              (IF \E i \in 1..Len(status_log[t]) : status_log[t][i] = PROCESSING THEN 1 ELSE 0)
        /\ Len(hook_log[t]) <= 2

TerminalCalls(t) == HookCalls(t, "complete") \cup HookCalls(t, "error")

\* C15: a task that is COMPLETED or FAILED has had exactly one terminal
\* event dispatched, "complete" if it is COMPLETED and "error" if it is
\* FAILED, as the last event of the task and after a "start" event, with the
\* snapshot of the task after the transition as payload; a task that is not
\* terminal has had none.
C15_OneTerminalEvent ==
    \A t \in DOMAIN tasks_db :
        IF tasks_db[t].status \in Terminal
        THEN /\ Cardinality(TerminalCalls(t)) = 1
             /\ Len(hook_log[t]) \in TerminalCalls(t)
             /\ Last(hook_log[t]).event =
                   (IF tasks_db[t].status = COMPLETED THEN "complete" ELSE "error")
             /\ \E i \in HookCalls(t, "start") : i < Len(hook_log[t])
             /\ Last(hook_log[t]).data = to_dict(tasks_db[t])
             /\ Last(hook_log[t]).data.status = tasks_db[t].status
        ELSE TerminalCalls(t) = {}

\* a single-file task that was retried and FAILED, its error hook set
C15_Witness ==
    \E t \in DOMAIN tasks_db :
        /\ tasks_db[t].status = FAILED /\ tasks_db[t].retry_count >= 1
        /\ Last(hook_log[t]).event = "error"
        /\ Last(hook_log[t]).hook # NoHook
        /\ Last(hook_log[t]).data.retry_count = tasks_db[t].retry_count

\* the statuses a task goes through, as the outcomes of its engine calls
\* and the position of its routine determine them
RECURSIVE SingleStatuses(_, _, _)
SingleStatuses(calls, max_retries, i) ==
    IF i > Len(calls) THEN <<>>
    ELSE <<PROCESSING,
           IF calls[i].outcome.ok THEN COMPLETED
           ELSE IF i <= max_retries THEN RETRYING ELSE FAILED>>
         \o SingleStatuses(calls, max_retries, i + 1)
ExpectedStatuses(t) ==
    IF IsSingle(t)
    THEN <<PENDING>> \o SingleStatuses(engine_log[t], tasks_db[t].max_retries, 1)
         \o (IF jobs[t].pc = "engine" THEN <<PROCESSING>> ELSE <<>>)
    ELSE <<PENDING>>
         \o (IF jobs[t].pc = "queued" THEN <<>> ELSE <<PROCESSING>>)
         \o [i \in 1..Len(engine_log[t]) |-> PROCESSING]
         \o (IF jobs[t].pc = "returned" THEN <<COMPLETED>>
             ELSE IF jobs[t].pc = "raised" THEN <<FAILED>> ELSE <<>>)

\* C16: no call of trigger_hook raises, whether the hook is unset, the
\* delivery succeeds or the delivery fails, and neither the statuses of a
\* task nor its stored fields depend on it: they are what the outcomes of
\* the engine calls determine.
C16_HooksNeverInterfere ==
    \A t \in DOMAIN tasks_db :
        /\ \A i \in 1..Len(hook_log[t]) :
              /\ ~hook_log[t][i].raised
              /\ hook_log[t][i].delivery \in Deliveries(hook_log[t][i].hook)
        /\ status_log[t] = ExpectedStatuses(t)
        /\ IsSingle(t) =>
              /\ tasks_db[t].retry_count =
                    (IF tasks_db[t].status = FAILED THEN Cardinality(FailedCalls(t)) - 1
                     ELSE Cardinality(FailedCalls(t)))
              /\ tasks_db[t].error =
                    (IF FailedCalls(t) = {} THEN NoneError
                     ELSE engine_log[t][CHOOSE i \in FailedCalls(t) :
                                           \A j \in FailedCalls(t) : j <= i].outcome.err)
              /\ tasks_db[t].status = COMPLETED =>
                    tasks_db[t].result =
                       [output_path |-> apply_watermark(jobs[t].input_path), progress |-> 100]
        /\ (IsBatch(t) /\ jobs[t].pc # "queued") =>
              /\ tasks_db[t].result.processed = ExpectedProcessed(t)
              /\ tasks_db[t].result.skipped = ExpectedSkipped(t)

\* a task COMPLETED after a retry, every delivery of its hooks having failed
C16_Witness ==
    \E t \in DOMAIN tasks_db :
        /\ tasks_db[t].status = COMPLETED /\ tasks_db[t].retry_count >= 1
        /\ \A i \in 1..Len(hook_log[t]) : hook_log[t][i].delivery = "failed"
        /\ Len(hook_log[t]) >= 3

\* a task FAILED with no hook configured
C16_WitnessUnset ==
    \E t \in DOMAIN tasks_db :
        /\ tasks_db[t].status = FAILED
        /\ \A i \in 1..Len(hook_log[t]) : hook_log[t][i].delivery = "unset"

\* C17: a sweep with retention hours removes a task iff it is COMPLETED or
\* FAILED and its completed_at is strictly before now - hours; a PENDING,
\* PROCESSING or RETRYING task stays however old it is, every task that
\* stays is unchanged, and the sweep returns the number of tasks removed.
C17_SweepRemovesExpired ==
    [][\A hours \in RetentionHours :
         cleanup_old_tasks_call(hours) =>
            /\ DOMAIN tasks_db' \subseteq DOMAIN tasks_db
            /\ \A tid \in DOMAIN tasks_db :
                  /\ tid \notin DOMAIN tasks_db' <=>
                        (/\ tasks_db[tid].status \in Terminal
                         /\ tasks_db[tid].completed_at # NoneTime
                         /\ tasks_db[tid].completed_at < now - hours)
                  /\ tasks_db[tid].status \notin Terminal => tid \in DOMAIN tasks_db'
                  /\ tid \in DOMAIN tasks_db' => tasks_db'[tid] = tasks_db[tid]
            /\ reaper'.cleaned = Cardinality(DOMAIN tasks_db \ DOMAIN tasks_db')
      ]_vars

\* retention 24 h: of a task completed 25 h ago and a task completed 1 h
\* ago, the first was removed and the second is kept
C17_Witness ==
    /\ reaper.cleaned = 1
    /\ reaper.cutoff = now - CleanupHours
    /\ \E tid \in DOMAIN tasks_db :
          /\ DOMAIN tasks_db = {tid}
          /\ tid = MaxTasks + 2
          /\ tasks_db[tid].status \in Terminal
          /\ tasks_db[tid].completed_at = now - 1

StoreIds == TaskIds \cup DrawnIds

\* C18: the cleanup thread never stops: when a sweep raises, the error is
\* logged and a later sweep is started, so a task that is COMPLETED or
\* FAILED and whose completed_at is more than 24 hours old is eventually
\* removed from the store.
C18_ReaperKeepsRunning ==
    /\ []<>(reaper.pc = "scan")
    /\ \A tid \in StoreIds :
          (tid \in DOMAIN tasks_db /\ Expired(tasks_db[tid], Cutoff(now, CleanupHours)))
             ~> (tid \notin DOMAIN tasks_db)

\* a sweep has raised, and a later sweep has removed a task
C18_Witness ==
    /\ reaper.errors >= 1
    /\ reaper.pc = "sleep"
    /\ reaper.cleaned >= 1

\* C19: no operation of TaskManager fails, whatever the interleaving of a
\* sweep of the cleanup thread with the task creations of the request
\* handlers.
C19_NoOperationFails == reaper.errors = 0

\* the routine of t is waiting for an engine call to return
EngineRunning(t) ==
    \/ IsSingle(t) /\ jobs[t].pc = "engine"
    \/ IsBatch(t) /\ jobs[t].pc = "loop" /\ jobs[t].idx < Len(jobs[t].file_paths)

Suspended(t) == IsSingle(t) /\ jobs[t].pc = "sleep"
\* the routine of t has not returned
Running(t) == t \in DOMAIN jobs /\ jobs[t].pc \notin {"returned", "raised"}

\* while task 1 sleeps, task 2 can take its next step and queries are answered
C21_WhileSuspended ==
    Suspended(1) =>
        /\ tasks_db[1].status = RETRYING
        /\ Running(2) => ENABLED JobStep(2)
        /\ \A t \in PairIds :
              get_task_status(t) = [code |-> 200, body |-> to_dict(tasks_db[t])]
\* while task 1 stays asleep, nothing of it in the store changes
C21_NoUpdateInSleep ==
    Suspended(1) /\ Suspended(1)' =>
        /\ tasks_db'[1] = tasks_db[1]
        /\ status_log'[1] = status_log[1]
        /\ hook_log'[1] = hook_log[1]
        /\ jobs'[1] = jobs[1]

\* C21: while the routine of task 1 is suspended in its backoff delay, the
\* task is RETRYING, nothing of it in the store changes until the delay is
\* over, status queries for both tasks are answered with their snapshots,
\* and task 2 can take each of its steps and reaches COMPLETED or FAILED,
\* whether or not the delay of task 1 ever ends.
C21_BackoffDoesNotBlock ==
    /\ [] C21_WhileSuspended
    /\ [][C21_NoUpdateInSleep]_vars
    /\ (Suspended(1) ~> tasks_db[2].status \in Terminal)

\* task 1 is in its first delay and task 2, which was retried, is done
C21_Witness ==
    /\ Suspended(1)
    /\ Len(sleep_log[1]) = 1
    /\ tasks_db[2].status \in Terminal
    /\ (IsSingle(2) => tasks_db[2].retry_count >= 1)

\* the attempts of t that have started: its transitions into PROCESSING
StartedAttempts(t) == {i \in 1..Len(status_log[t]) : status_log[t][i] = PROCESSING}

\* C22: of a single-file task, the attempts started are the engine calls
\* that have returned or raised, plus one exactly while the routine waits
\* for its engine call; every attempt but the first was started right after
\* a RETRYING update, when every earlier engine call had failed and one
\* backoff delay per earlier attempt had been slept.
C22_OneAttemptInFlight ==
    \A t \in TaskIds :
        IsSingle(t) =>
            LET n == Cardinality(StartedAttempts(t))
                done == Len(engine_log[t])
            IN  /\ n - done = (IF jobs[t].pc = "engine" THEN 1 ELSE 0)
                /\ \A i \in StartedAttempts(t) :
                      status_log[t][i - 1] = (IF i = 2 THEN PENDING ELSE RETRYING)
                /\ \A k \in 1..(n - 1) :
                      /\ ~engine_log[t][k].outcome.ok
                      /\ k <= Len(sleep_log[t])
                /\ Len(sleep_log[t]) = Cardinality(RetryingEntries(t))
                /\ jobs[t].pc = "engine" =>
                      /\ Len(sleep_log[t]) = n - 1
                      /\ jobs[t].retry_count = n - 1

\* the third attempt of a task is in flight
C22_Witness ==
    \E t \in TaskIds :
        /\ IsSingle(t)
        /\ jobs[t].pc = "engine"
        /\ Len(engine_log[t]) = 2
        /\ Len(sleep_log[t]) = 2

\* the message of the most recent failed engine call of t
LastFailure(t) ==
    LET F == FailedCalls(t)
        k == CHOOSE i \in F : \A j \in F : j <= i
    IN  engine_log[t][k].outcome.err

\* the error of a single-file task is the message of its most recent failure
C23_ErrorIsLastFailure ==
    \A t \in DOMAIN tasks_db :
        /\ IsSingle(t) =>
              tasks_db[t].error =
                  (IF FailedCalls(t) = {} THEN NoneError ELSE LastFailure(t))
        /\ tasks_db[t].status = RETRYING =>
              /\ to_dict(tasks_db[t]).error = LastFailure(t)
              /\ to_dict(tasks_db[t]).status \notin Terminal
              /\ to_dict(tasks_db[t]).completed_at = NoneIso
\* an error is written by a RETRYING or FAILED update only and never reset
C23_ErrorKept ==
    \A t \in DOMAIN tasks_db :
        /\ tasks_db[t].error # NoneError => tasks_db'[t].error # NoneError
        /\ tasks_db'[t].error # tasks_db[t].error => tasks_db'[t].status \in {RETRYING, FAILED}

\* C23: the error of a task is unset until an attempt fails; from then on
\* it is the message of the most recent failure and is never reset: the
\* re-entry into PROCESSING and the COMPLETED update of a successful retry
\* keep it.  A RETRYING task shows that message in its snapshot, with a
\* non-terminal status and no completed_at.
C23_ErrorNeverCleared == [] C23_ErrorIsLastFailure /\ [][C23_ErrorKept]_vars

\* a task completed by its third attempt still shows the second failure
C23_Witness ==
    \E t \in DOMAIN tasks_db :
        /\ IsSingle(t)
        /\ tasks_db[t].status = COMPLETED
        /\ Len(engine_log[t]) = 3
        /\ engine_log[t][1].outcome.err = "E1"
        /\ tasks_db[t].error = "E2"

\* C24: started_at is unset until the first transition of the task into
\* PROCESSING, which sets it to the time of that update; no later update
\* (retry, batch progress, terminal) changes it.  completed_at is unset
\* until the first transition into COMPLETED or FAILED, which sets it to
\* the time of that update; nothing changes it afterwards.
C24_StampedOnce ==
    [][\A t \in DOMAIN tasks_db \cap DOMAIN tasks_db' :
          LET old == tasks_db[t]
              new == tasks_db'[t]
          IN  /\ old.started_at # NoneTime => new.started_at = old.started_at
              /\ old.started_at = NoneTime /\ new.status = PROCESSING =>
                    new.started_at = now
              /\ new.started_at # old.started_at =>
                    old.status = PENDING /\ new.status = PROCESSING
              /\ old.completed_at # NoneTime => new.completed_at = old.completed_at
              /\ old.completed_at = NoneTime /\ new.status \in Terminal =>
                    new.completed_at = now
              /\ new.completed_at # old.completed_at =>
                    old.status \notin Terminal /\ new.status \in Terminal
      ]_vars

\* a retried task that ended after the clock moved keeps its first started_at
C24_Witness ==
    \E t \in DOMAIN tasks_db :
        /\ tasks_db[t].retry_count >= 1
        /\ tasks_db[t].status \in Terminal
        /\ tasks_db[t].started_at # NoneTime
        /\ tasks_db[t].completed_at > tasks_db[t].started_at

\* C25: every task in the store whose completed_at is set has its
\* started_at set too, to a time not after completed_at (the clock never
\* goes back).
C25_StartedBeforeCompleted ==
    \A t \in DOMAIN tasks_db :
        tasks_db[t].completed_at # NoneTime =>
            /\ tasks_db[t].started_at # NoneTime
            /\ tasks_db[t].started_at <= tasks_db[t].completed_at

\* a batch task started before the clock moved and completed after it
C25_Witness ==
    \E t \in DOMAIN tasks_db :
        /\ IsBatch(t)
        /\ tasks_db[t].status = COMPLETED
        /\ tasks_db[t].started_at = 0
        /\ tasks_db[t].completed_at = now
        /\ now > 0

\* the identifiers the store has ever held: those of the tasks it started
\* with and those uuid4 has handed out
EverUsed == DrawnIds \cup 1..issued

\* C26: a step adds at most one task to the store.  The task it adds has an
\* identifier the store never held, status PENDING, retry_count 0,
\* created_at the time of the call, the default retry policy, and no
\* started_at, completed_at, result or error; every task that was in the
\* store is still there, unchanged; a status query made right after answers
\* 200 with status PENDING.
C26_CreateTask ==
    [][LET added == DOMAIN tasks_db' \ DOMAIN tasks_db IN
       /\ Cardinality(added) <= 1
       /\ \A new \in added :
             /\ new \notin EverUsed
             /\ tasks_db'[new] =
                   [task_id |-> new, status |-> PENDING, created_at |-> now,
                    started_at |-> NoneTime, completed_at |-> NoneTime,
                    result |-> NoneResult, error |-> NoneError, retry_count |-> 0,
                    max_retries |-> DefaultMaxRetries, retry_delay |-> DefaultRetryDelay]
             /\ \A old \in DOMAIN tasks_db :
                   old \in DOMAIN tasks_db' /\ tasks_db'[old] = tasks_db[old]
             /\ get_task_status(new)'.code = 200
             /\ get_task_status(new)'.body.status = PENDING
             /\ get_task_status(new)'.body.result = EmptyDict
             /\ jobs'[new].pc = "queued"
      ]_vars

\* a new task next to an older one, in a store a sweep has removed tasks from
C26_Witness ==
    /\ \E new \in TaskIds \cap DOMAIN tasks_db : tasks_db[new].status = PENDING
    /\ DrawnIds \cap DOMAIN tasks_db # {}
    /\ reaper.pc = "sleep"
    /\ reaper.cleaned # Unbound
    /\ reaper.cleaned >= 1

\* C27: no step changes the task_id, created_at, max_retries or retry_delay
\* of a task in the store, and the task_id of a task is the key it is
\* stored under.
C27_FixedAtCreation ==
    [][\A t \in DOMAIN tasks_db \cap DOMAIN tasks_db' :
          /\ tasks_db[t].task_id = t
          /\ tasks_db'[t].task_id = tasks_db[t].task_id
          /\ tasks_db'[t].created_at = tasks_db[t].created_at
          /\ tasks_db'[t].max_retries = tasks_db[t].max_retries
          /\ tasks_db'[t].retry_delay = tasks_db[t].retry_delay
      ]_vars

\* a task created with its own retry policy has used it up, with hooks set
C27_Witness ==
    \E t \in DOMAIN tasks_db :
        /\ tasks_db[t].status = FAILED
        /\ tasks_db[t].max_retries = 2
        /\ tasks_db[t].retry_delay = 1
        /\ tasks_db[t].retry_count = 2
        /\ Len(hook_log[t]) >= 2

\* the step is the handling of an HTTP request
HandlerStep ==
    \/ \E request \in UploadRequests : upload_and_watermark_request(request)
    \/ \E request \in BatchHttpRequests : watermark_batch_request(request)
    \/ \E request \in StatusRequests(ApiIds) : get_task_status_request(request)

\* C28: a status query leaves the store as it was: for an identifier the
\* store does not hold it answers 404 and the identifier is still absent
\* afterwards; for one it holds it answers 200 with the snapshot of that
\* task.  No handler of an HTTP request removes or changes a task of the
\* store; a step that removes one is a sweep.
C28_QueriesDoNotMutate ==
    [][/\ \A request \in StatusRequests(ApiIds) :
             get_task_status_request(request) =>
                 /\ tasks_db' = tasks_db
                 /\ jobs' = jobs
                 /\ exchange'.response =
                       (IF request.task_id \in DOMAIN tasks_db
                        THEN [code |-> 200, body |-> to_dict(tasks_db[request.task_id])]
                        ELSE [code |-> 404, detail |-> "Task not found"])
       /\ HandlerStep =>
             \A t \in DOMAIN tasks_db : t \in DOMAIN tasks_db' /\ tasks_db'[t] = tasks_db[t]
       /\ ~(DOMAIN tasks_db \subseteq DOMAIN tasks_db') =>
             \E hours \in RetentionHours : cleanup_old_tasks_call(hours)
      ]_vars

\* a query for an identifier the store does not hold has been answered 404,
\* next to a task the store holds
C28_Witness ==
    /\ exchange.request.endpoint = "status"
    /\ exchange.request.task_id \notin DOMAIN tasks_db
    /\ exchange.response.code = 404
    /\ tasks_db # EmptyDict

\* C29: when a routine is entered for an identifier the store does not
\* hold, it returns at once: the store is as it was (no task inserted or
\* changed), no engine call is made, no hook is dispatched, nothing is
\* slept and no update is recorded.
C29_MissingTaskNoOp ==
    [][\A t \in TaskIds :
          t \notin DOMAIN tasks_db /\ jobs[t].pc = "queued" /\ jobs'[t] # jobs[t] =>
              /\ jobs'[t] = [jobs[t] EXCEPT !.pc = "returned"]
              /\ tasks_db' = tasks_db
              /\ engine_log' = engine_log
              /\ hook_log' = hook_log
              /\ sleep_log' = sleep_log
              /\ status_log' = status_log
      ]_vars

\* a batch routine has returned for an identifier the store does not hold,
\* with other tasks in the store and the start hook set
C29_Witness ==
    \E t \in TaskIds :
        /\ t \notin DOMAIN tasks_db
        /\ IsBatch(t)
        /\ jobs[t].pc = "returned"
        /\ jobs[t].file_paths # <<>>
        /\ tasks_db # EmptyDict
        /\ environ["START_HOOK"] # NoHook
        /\ hook_log[t] = <<>>

\* the request names the configured key in its header or in its query
SuppliesKey(request) == request.header = API_KEY \/ request.query = API_KEY
\* the request passes the checks the handler makes after authentication
ValidBody(request) ==
    /\ request.position \in valid_positions
    /\ request.endpoint = "upload" => save_upload_file(request.file, 0).code = 200

\* C30: with API_KEY configured, a request to the upload or batch endpoint
\* that supplies the key in X-API-Key or in authkey is not answered 401,
\* and is answered 202 with the identifier of a new task when its body is
\* valid; a request that supplies the key in neither is answered 401 and
\* the store is left as it was.
C30_KeyInHeaderOrQuery ==
    [][exchange' # exchange /\ exchange'.request.endpoint \in {"upload", "batch"}
          /\ Truthy(API_KEY) =>
          LET request == exchange'.request
              response == exchange'.response
          IN  IF SuppliesKey(request)
              THEN /\ response.code # 401
                   /\ ValidBody(request) =>
                         /\ response.code = 202
                         /\ response.body.task_id \in DOMAIN tasks_db' \ DOMAIN tasks_db
              ELSE /\ response.code = 401
                   /\ tasks_db' = tasks_db
                   /\ jobs' = jobs
      ]_vars

\* the request presents the configured key
PresentsKey(request) == Truthy(API_KEY) /\ Or(request.header, request.query) = API_KEY

\* C31: a request for a file that presents the configured key is answered
\* 200 with the bytes of the file when the path lies inside the output
\* folder, and 404 without the bytes when it lies outside.
C31_ServeFile ==
    exchange.request.endpoint = "files" /\ PresentsKey(exchange.request) =>
        IF InsideOutput(exchange.request.path)
        THEN exchange.response =
                 [code |-> 200, content |-> FileBytes(exchange.request.path)]
        ELSE exchange.response.code = 404 /\ "content" \notin DOMAIN exchange.response

\* C32: a run of the command line on a list of files ends with cli_main
\* returning 0 when process_files processed at least one file and 1 when it
\* processed none; a run on valid images only exits with 0.
C32_CliExitCode ==
    exchange.request.endpoint = "cli" =>
        LET files == exchange.request.files
            some == \E i \in 1..Len(files) : FileOutcome(files[i]).ok
        IN  /\ exchange.response.outcome = [returned |-> IF some THEN 0 ELSE 1]
            /\ exchange.response.returncode = (IF some THEN 0 ELSE 1)

\* C33: a request to the upload or batch endpoint that presents the key and
\* is answered with anything but 202 leaves the store, the identifiers
\* handed out and the scheduled routines as they were; a position outside
\* valid_positions is answered 400, an upload of an unsupported type 400
\* and an upload over max_upload_size 413.
C33_RejectedCreatesNothing ==
    [][exchange' # exchange /\ exchange'.request.endpoint \in {"upload", "batch"}
          /\ PresentsKey(exchange'.request) =>
          LET request == exchange'.request
              code == exchange'.response.code
          IN  /\ request.position \notin valid_positions => code = 400
              /\ request.endpoint = "upload" /\ request.position \in valid_positions =>
                    code = (CASE request.file = "notes.txt" -> 400
                              [] request.file = "huge.jpg" -> 413
                              [] OTHER -> 202)
              /\ code # 202 =>
                    /\ tasks_db' = tasks_db
                    /\ jobs' = jobs
                    /\ issued' = issued
                    /\ status_log' = status_log
      ]_vars

\* an upload over max_upload_size has been refused and the store holds the
\* older task only
C33_Witness ==
    /\ exchange.request.endpoint = "upload"
    /\ exchange.response.code = 413
    /\ issued = 0
    /\ tasks_db # EmptyDict

\* the engine calls of a single-file task number at most max_retries + 1,
\* and exactly that when every attempt made one, all of them failed and the
\* routine is done; the task is then FAILED
C34_CallsCounted ==
    \A t \in DOMAIN tasks_db :
        IsSingle(t) =>
            /\ Len(engine_log[t]) <= tasks_db[t].max_retries + 1
            /\ (/\ jobs[t].pc = "returned"
                /\ Cardinality(StartedAttempts(t)) = Len(engine_log[t])
                /\ FailedCalls(t) = 1..Len(engine_log[t])) =>
                  /\ Len(engine_log[t]) = tasks_db[t].max_retries + 1
                  /\ tasks_db[t].status = FAILED
\* no engine call is made or started for a task that is COMPLETED or FAILED
C34_NoCallAfterEnd ==
    \A t \in DOMAIN tasks_db :
        IsSingle(t) /\ tasks_db[t].status \in Terminal =>
            /\ engine_log'[t] = engine_log[t]
            /\ jobs'[t].pc = "returned"

\* C34: a single-file task whose engine call fails on every attempt has the
\* engine invoked exactly max_retries + 1 times; once the task is FAILED or
\* COMPLETED the engine is not invoked for it again.
C34_EngineCalls == [] C34_CallsCounted /\ [][C34_NoCallAfterEnd]_vars

\* a task created with max_retries = 2 failed after three engine calls
C34_Witness ==
    \E t \in DOMAIN tasks_db :
        /\ IsSingle(t)
        /\ jobs[t].pc = "returned"
        /\ tasks_db[t].max_retries = 2
        /\ FailedCalls(t) = 1..3
        /\ Len(engine_log[t]) = 3

\* C35: of every task in the store, completed_at is set exactly when the
\* status is COMPLETED or FAILED and started_at is set exactly when the
\* status is not PENDING; so every task the sweep would select by its
\* completed_at, whatever the retention, is COMPLETED or FAILED.
C35_StampsFollowStatus ==
    \A t \in DOMAIN tasks_db :
        /\ tasks_db[t].completed_at # NoneTime <=> tasks_db[t].status \in Terminal
        /\ tasks_db[t].started_at # NoneTime <=> tasks_db[t].status # PENDING
        /\ \A hours \in RetentionHours :
              t \in to_delete(tasks_db, hours, now) => tasks_db[t].status \in Terminal

\* a task waits for its retry a day after it started, and no sweep selects it
C35_Witness ==
    \E t \in DOMAIN tasks_db :
        /\ tasks_db[t].status = RETRYING
        /\ tasks_db[t].started_at # NoneTime
        /\ now >= tasks_db[t].started_at + CleanupHours
        /\ \A hours \in RetentionHours : t \notin to_delete(tasks_db, hours, now)

\* C36: the result a status query shows for a single-file task has an
\* output_path exactly when the status is COMPLETED, and is then the output
\* of the engine with progress 100; for PROCESSING, RETRYING and FAILED it
\* is progress 0 alone, and it is empty for PENDING.
C36_OutputPathIffCompleted ==
    \A t \in DOMAIN tasks_db :
        IsSingle(t) =>
            LET body == get_task_status(t).body
            IN  /\ "output_path" \in DOMAIN body.result <=> body.status = COMPLETED
                /\ body.status = COMPLETED =>
                      body.result = [output_path |-> apply_watermark(jobs[t].input_path),
                                     progress |-> 100]
                /\ body.status \in {PROCESSING, RETRYING, FAILED} =>
                      body.result = [progress |-> 0]
                /\ body.status = PENDING => body.result = EmptyDict

\* a task that was retried and then completed shows its output path
C36_Witness ==
    \E t \in DOMAIN tasks_db :
        /\ IsSingle(t)
        /\ Len(sleep_log[t]) >= 1
        /\ get_task_status(t).body.status = COMPLETED
        /\ "output_path" \in DOMAIN get_task_status(t).body.result

\* the routine of t runs over an empty list and no statement of its driving
\* loop has been made to raise
EmptyBatch(t) ==
    IsBatch(t) /\ jobs[t].file_paths = <<>> /\ tasks_db[t].error \notin OrchErrors
IsPrefix(s, full) == Len(s) <= Len(full) /\ \A i \in 1..Len(s) : s[i] = full[i]

\* the statuses are PENDING, PROCESSING, COMPLETED in this order, no engine
\* call is made and no progress is computed
C37_EmptyBatchSteps ==
    \A t \in DOMAIN tasks_db :
        EmptyBatch(t) =>
            /\ IsPrefix(status_log[t], <<PENDING, PROCESSING, COMPLETED>>)
            /\ engine_log[t] = <<>>
            /\ jobs[t].progress = Unbound
            /\ tasks_db[t].error = NoneError
            /\ jobs[t].pc = "loop" =>
                  tasks_db[t].result =
                      [total_files |-> 0, processed |-> <<>>, skipped |-> <<>>, progress |-> 0]
            /\ jobs[t].pc = "returned" =>
                  /\ tasks_db[t].status = COMPLETED
                  /\ tasks_db[t].result =
                        [total_files |-> 0, processed |-> <<>>, skipped |-> <<>>,
                         progress |-> 100]

\* C37: a batch task over an empty list goes PENDING, PROCESSING, COMPLETED
\* and ends with total_files 0, empty processed and skipped lists and
\* progress 100; the engine is not invoked and the progress of a file is
\* never computed, so nothing divides by the length of the list.
C37_EmptyBatchCompletes ==
    /\ [] C37_EmptyBatchSteps
    /\ \A t \in TaskIds :
          (t \in DOMAIN tasks_db /\ EmptyBatch(t))
              ~> (/\ t \in DOMAIN tasks_db
                  /\ tasks_db[t].status = COMPLETED \/ tasks_db[t].error \in OrchErrors)

\* an empty batch is COMPLETED
C37_Witness ==
    \E t \in DOMAIN tasks_db :
        /\ EmptyBatch(t)
        /\ status_log[t] = <<PENDING, PROCESSING, COMPLETED>>
        /\ tasks_db[t].result.total_files = 0
        /\ tasks_db[t].result.progress = 100

\* C38: while the delivery of a hook is in flight, a status query for any
\* task can be answered and every other task whose routine has a step to
\* take can take it.
C38_HookNeverBlocks ==
    InFlight =>
        /\ \A request \in StatusRequests(PairIds) : ENABLED loop_get_task_status(request)
        /\ \A t \in PairIds : (ENABLED JobStep(t)) => ENABLED loop_JobStep(t)

\* C39: a request to the status, upload or batch endpoint that does not
\* present the configured key (all of them when no key is configured) is
\* answered neither 200 nor 202: it is given no snapshot of a task and it
\* creates no task.
C39_KeyRequired ==
    [][exchange' # exchange /\ exchange'.request.endpoint \in {"status", "upload", "batch"}
          /\ ~PresentsKey(exchange'.request) =>
          /\ exchange'.response.code \notin {200, 202}
          /\ "body" \notin DOMAIN exchange'.response
          /\ tasks_db' = tasks_db
          /\ issued' = issued
          /\ jobs' = jobs
      ]_vars

\* C40: the module-level configuration keeps the values it was loaded with
\* whatever requests are handled, and apply_watermark draws a request that
\* carries no style override with exactly those values, whichever requests
\* were handled or drawn before it.
C40_ConfigUntouched ==
    /\ styles.heap[ConfigRef] = LoadedConfig
    /\ \A i \in 1..Len(styles.calls) :
          styles.calls[i].done /\ styles.calls[i].overrides = NoOverrides =>
              styles.calls[i].used = LoadedConfig

\* a request with every override has been drawn with its own values, and a
\* later request without overrides with the loaded ones
C40_Witness ==
    /\ Len(styles.calls) = 2
    /\ styles.calls[1].done /\ styles.calls[2].done
    /\ styles.calls[1].overrides.padding = 10
    /\ styles.calls[1].overrides.font_file = "Custom.ttf"
    /\ styles.calls[1].used =
          [padding |-> 10, font_color |-> "000000", border_color |-> "FF0000",
           border_thickness |-> 5, font_file |-> "Custom.ttf"]
    /\ styles.calls[2].overrides = NoOverrides
    /\ styles.calls[2].used = LoadedConfig

====
